---------------------------- MODULE Spec2Model ----------------------------
(***************************************************************************)
(* Order lifecycle and catalog import of the procurement backend           *)
(* (backend/models.py, backend/serializers.py, backend/views.py,           *)
(* backend/services/importer.py).                                          *)
(*                                                                         *)
(* The relational store is modelled table by table: a table whose rows are *)
(* never deleted is a sequence indexed by primary key, a table with        *)
(* deletions is a set of rows.  Money is an integer number of minor units. *)
(***************************************************************************)
EXTENDS Integers, Sequences, FiniteSets, TLC

(***************************************************************************)
(* Bounds of the model.                                                    *)
(***************************************************************************)
NumUsers == 2
NumShops == 2
MaxOrders == 2
MaxStock == 2
MaxImports == 3
NumProcs == 2

Users == 1..NumUsers
Shops == 1..NumShops
Procs == 1..NumProcs

\* None of Python, where a key is absent or a nullable column is NULL.
NoneId == 0
\* A key that is absent from a payload mapping (dict.get falls to its default).
Absent == "<absent>"

(***************************************************************************)
(* models.py: Order.Status                                                 *)
(***************************************************************************)
Status_CART == "cart"
Status_NEW == "new"
Status_CONFIRMED == "confirmed"
Status_ASSEMBLED == "assembled"
Status_SHIPPED == "shipped"
Status_COMPLETED == "completed"
Status_CANCELLED == "cancelled"
Status == {Status_CART, Status_NEW, Status_CONFIRMED, Status_ASSEMBLED, Status_SHIPPED,
           Status_COMPLETED, Status_CANCELLED}

VARIABLES
    categories,          \* Category rows: sequence of names, pk = index
    shop_categories,     \* Category.shops many-to-many: set of <<shop, category pk>>
    products,            \* Product rows: sequence of [category, name, description]
    product_infos,       \* ProductInfo rows: sequence of records, pk = index
    parameters,          \* Parameter rows: sequence of names
    product_parameters,  \* ProductParameter rows: set of [product_info, parameter, value]
    contacts,            \* Contact rows: set of [id, user]
    orders,              \* Order rows: sequence of [user, status, contact, comment]
    order_items,         \* OrderItem rows: set of [order, product_info, quantity, price]
    lastOp,              \* the operation that produced this state, with its outcome
    lastImport,          \* the last import_payload call: shop, payload, outcome, ImportResult,
                         \* and whether it repeated the successful call before it
    lastPlaced,          \* per user: the Order their last confirm placed, until their next cartFor
    req,                 \* in-flight requests of the concurrent specification
    imports,             \* number of imports run in the import specification
    accounts,            \* User rows, per user: [registered, role, email_verified]
    email_tokens         \* EmailConfirmationToken rows: set of [token, user, is_used, expired]

catalogVars == <<categories, shop_categories, products, product_infos,
                 parameters, product_parameters>>
orderVars == <<contacts, orders, order_items>>
accountVars == <<accounts, email_tokens>>
vars == <<categories, shop_categories, products, product_infos, parameters,
          product_parameters, contacts, orders, order_items, lastOp, lastImport,
          lastPlaced, req, imports, accounts, email_tokens>>

\* The catalog tables as one value, the unit a transaction commits or rolls back.
Catalog ==
    [categories |-> categories, shop_categories |-> shop_categories,
     products |-> products, product_infos |-> product_infos,
     parameters |-> parameters, product_parameters |-> product_parameters]

EmptyCatalog ==
    [categories |-> <<>>, shop_categories |-> {}, products |-> <<>>,
     product_infos |-> <<>>, parameters |-> <<>>, product_parameters |-> {}]

(***************************************************************************)
(* services/importer.py                                                    *)
(***************************************************************************)
ZeroResult ==
    [categories_created |-> 0, products_created |-> 0,
     product_infos_created |-> 0, parameters_created |-> 0]

\* Decimal(str(value)): the numeric strings parse, anything else raises.
DecimalTable == [s \in {"5", "10"} |-> IF s = "5" THEN 5 ELSE 10]
IsNumeric(raw) == raw \in DOMAIN DecimalTable
to_decimal(raw) == DecimalTable[raw]

\* str(value) of a parameter value.
StrTable == <<"1", "2">>
ToStr(v) == StrTable[v]

\* Index of the first element of seq satisfying Test, 0 if none (QuerySet.get).
FindIndex(seq, Test(_)) ==
    IF \E i \in DOMAIN seq : Test(seq[i])
    THEN CHOOSE i \in DOMAIN seq : Test(seq[i]) /\ \A j \in 1..(i - 1) : ~Test(seq[j])
    ELSE 0

MapPut(m, k, v) == [x \in (DOMAIN m) \cup {k} |-> IF x = k THEN v ELSE m[x]]

\* A categories loop that does not skip the entries without a name.
ImportCategoryStep_nameless(shop, acc, category_data) ==
    LET name == category_data.name
        external_id == category_data.id
        found == FindIndex(acc.cat.categories, LAMBDA n : n = name)
        created == found = 0
        cats1 == IF created THEN Append(acc.cat.categories, name)
                 ELSE acc.cat.categories
        category == IF created THEN Len(cats1) ELSE found
    IN  [acc EXCEPT
            !.cat.categories = cats1,
            !.cat.shop_categories = @ \cup {<<shop, category>>},
            !.result.categories_created = IF created THEN @ + 1 ELSE @,
            !.category_map = MapPut(@, external_id, category)]

\* A categories loop that creates the Category without looking it up.
ImportCategoryStep_create(shop, acc, category_data) ==
    LET name == category_data.name
        external_id == category_data.id
        cats1 == Append(acc.cat.categories, name)
        category == Len(cats1)
    IN  IF name = Absent \/ name = ""
        THEN acc
        ELSE [acc EXCEPT
                !.cat.categories = cats1,
                !.cat.shop_categories = @ \cup {<<shop, category>>},
                !.result.categories_created = @ + 1,
                !.category_map = MapPut(@, external_id, category)]

\* One iteration of the categories loop (importer.py 50-59).
ImportCategoryStep(shop, acc, category_data) ==
    LET name == category_data.name
        external_id == category_data.id
        found == FindIndex(acc.cat.categories, LAMBDA n : n = name)
        created == found = 0
        cats1 == IF created THEN Append(acc.cat.categories, name)
                 ELSE acc.cat.categories
        category == IF created THEN Len(cats1) ELSE found
    IN  IF name = Absent \/ name = ""
        THEN acc
        ELSE [acc EXCEPT
                !.cat.categories = cats1,
                !.cat.shop_categories = @ \cup {<<shop, category>>},
                !.result.categories_created = IF created THEN @ + 1 ELSE @,
                !.category_map = MapPut(@, external_id, category)]

RECURSIVE ImportCategories(_, _, _)
ImportCategories(shop, acc, cats) ==
    IF cats = <<>> THEN acc
    ELSE ImportCategories(shop, ImportCategoryStep(shop, acc, Head(cats)), Tail(cats))

\* _iter_parameters (importer.py 112-116): the items of a mapping, else nothing.
NotMapping == <<<<"<not a mapping>", 0>>>>
iter_parameters(item) ==
    IF item.parameters = NotMapping THEN <<>> ELSE item.parameters

\* The parameters loop of one goods entry (importer.py 95-103).
RECURSIVE ImportParameters(_, _, _)
ImportParameters(info, acc, params) ==
    IF params = <<>> THEN acc
    ELSE LET param_name == Head(params)[1]
             value == Head(params)[2]
             found == FindIndex(acc.cat.parameters, LAMBDA n : n = param_name)
             created == found = 0
             pars1 == IF created THEN Append(acc.cat.parameters, param_name)
                      ELSE acc.cat.parameters
             parameter == IF created THEN Len(pars1) ELSE found
             row == [product_info |-> info, parameter |-> parameter, value |-> ToStr(value)]
             \* unique_together (product_info, parameter)
             clash == \E r \in acc.cat.product_parameters :
                          r.product_info = info /\ r.parameter = parameter
             acc1 == [acc EXCEPT
                        !.cat.parameters = pars1,
                        !.result.parameters_created = IF created THEN @ + 1 ELSE @,
                        !.cat.product_parameters = @ \cup {row}]
         IN  IF clash THEN [acc EXCEPT !.error = "IntegrityError"]
             ELSE ImportParameters(info, acc1, Tail(params))

\* The default product name when the entry has neither name nor model.
NoName == "Bez nazvaniya"

\* A goods loop that leaves the ProductParameter rows of the listing in place.
ImportGoodsStep_keep(shop, acc, item) ==
    LET category_ext_id == item.category
        category == acc.category_map[category_ext_id]
        pname == IF item.name # Absent THEN item.name
                 ELSE IF item.model # Absent THEN item.model ELSE NoName
        pfound == FindIndex(acc.cat.products,
                            LAMBDA p : p.category = category /\ p.name = pname)
        product_created == pfound = 0
        prods1 == IF product_created
                  THEN Append(acc.cat.products,
                              [category |-> category, name |-> pname, description |-> ""])
                  ELSE acc.cat.products
        product == IF product_created THEN Len(prods1) ELSE pfound
        external_id == item.id
        rrc_raw == IF item.price_rrc # Absent THEN item.price_rrc ELSE item.price
        defaults == [model |-> IF item.model # Absent THEN item.model ELSE "",
                     name |-> IF item.name # Absent THEN item.name ELSE "",
                     price |-> to_decimal(item.price),
                     price_rrc |-> to_decimal(rrc_raw),
                     quantity |-> item.quantity]
        ifound == FindIndex(acc.cat.product_infos,
                            LAMBDA r : r.product = product /\ r.shop = shop
                                       /\ r.external_id = external_id)
        created == ifound = 0
        clash == \E i \in DOMAIN acc.cat.product_infos :
                     /\ acc.cat.product_infos[i].shop = shop
                     /\ acc.cat.product_infos[i].external_id = external_id
        row == [product |-> product, shop |-> shop, external_id |-> external_id,
                model |-> defaults.model, name |-> defaults.name,
                price |-> defaults.price, price_rrc |-> defaults.price_rrc,
                quantity |-> defaults.quantity]
        infos1 == IF created THEN Append(acc.cat.product_infos, row)
                  ELSE [acc.cat.product_infos EXCEPT ![ifound] = row]
        info == IF created THEN Len(infos1) ELSE ifound
        acc1 == [acc EXCEPT
                   !.cat.products = prods1,
                   !.result.products_created = IF product_created THEN @ + 1 ELSE @,
                   !.cat.product_infos = infos1,
                   !.result.product_infos_created = IF created THEN @ + 1 ELSE @,
                   !.processed_external_ids = @ \cup {external_id}]
    IN  IF category_ext_id \notin DOMAIN acc.category_map
        THEN acc
        ELSE IF ~IsNumeric(item.price) \/ ~IsNumeric(rrc_raw)
        THEN [acc EXCEPT !.error = "ValueError"]
        ELSE IF created /\ clash
        THEN [acc EXCEPT !.error = "IntegrityError"]
        ELSE ImportParameters(info, acc1, iter_parameters(item))

\* One iteration of the goods loop (importer.py 62-103).
ImportGoodsStep(shop, acc, item) ==
    LET category_ext_id == item.category
        category == acc.category_map[category_ext_id]
        pname == IF item.name # Absent THEN item.name
                 ELSE IF item.model # Absent THEN item.model ELSE NoName
        pfound == FindIndex(acc.cat.products,
                            LAMBDA p : p.category = category /\ p.name = pname)
        product_created == pfound = 0
        prods1 == IF product_created
                  THEN Append(acc.cat.products,
                              [category |-> category, name |-> pname, description |-> ""])
                  ELSE acc.cat.products
        product == IF product_created THEN Len(prods1) ELSE pfound
        external_id == item.id
        rrc_raw == IF item.price_rrc # Absent THEN item.price_rrc ELSE item.price
        defaults == [model |-> IF item.model # Absent THEN item.model ELSE "",
                     name |-> IF item.name # Absent THEN item.name ELSE "",
                     price |-> to_decimal(item.price),
                     price_rrc |-> to_decimal(rrc_raw),
                     quantity |-> item.quantity]
        \* update_or_create(product=, shop=, external_id=, defaults=)
        ifound == FindIndex(acc.cat.product_infos,
                            LAMBDA r : r.product = product /\ r.shop = shop
                                       /\ r.external_id = external_id)
        created == ifound = 0
        \* UniqueConstraint unique_shop_external_product on insert
        clash == \E i \in DOMAIN acc.cat.product_infos :
                     /\ acc.cat.product_infos[i].shop = shop
                     /\ acc.cat.product_infos[i].external_id = external_id
        row == [product |-> product, shop |-> shop, external_id |-> external_id,
                model |-> defaults.model, name |-> defaults.name,
                price |-> defaults.price, price_rrc |-> defaults.price_rrc,
                quantity |-> defaults.quantity]
        infos1 == IF created THEN Append(acc.cat.product_infos, row)
                  ELSE [acc.cat.product_infos EXCEPT ![ifound] = row]
        info == IF created THEN Len(infos1) ELSE ifound
        acc1 == [acc EXCEPT
                   !.cat.products = prods1,
                   !.result.products_created = IF product_created THEN @ + 1 ELSE @,
                   !.cat.product_infos = infos1,
                   !.result.product_infos_created = IF created THEN @ + 1 ELSE @,
                   !.processed_external_ids = @ \cup {external_id},
                   !.cat.product_parameters = {r \in @ : r.product_info # info}]
    IN  IF category_ext_id \notin DOMAIN acc.category_map
        THEN acc
        ELSE IF ~IsNumeric(item.price) \/ ~IsNumeric(rrc_raw)
        THEN [acc EXCEPT !.error = "ValueError"]
        ELSE IF created /\ clash
        THEN [acc EXCEPT !.error = "IntegrityError"]
        ELSE ImportParameters(info, acc1, iter_parameters(item))

RECURSIVE ImportGoods(_, _, _)
ImportGoods(shop, acc, goods) ==
    IF goods = <<>> \/ acc.error # "" THEN acc
    ELSE ImportGoods(shop, ImportGoodsStep(shop, acc, Head(goods)), Tail(goods))

\* A final update that forgets the filter on the shop.
ZeroUnseen_allshops(shop, infos, processed) ==
    IF processed # {}
    THEN [i \in DOMAIN infos |->
            IF infos[i].external_id \notin processed
            THEN [infos[i] EXCEPT !.quantity = 0]
            ELSE infos[i]]
    ELSE infos

\* The final update of import_payload (importer.py 105-108).
ZeroUnseen(shop, infos, processed) ==
    IF processed # {}
    THEN [i \in DOMAIN infos |->
            IF infos[i].shop = shop /\ infos[i].external_id \notin processed
            THEN [infos[i] EXCEPT !.quantity = 0]
            ELSE infos[i]]
    ELSE infos

\* import_payload without the transaction: what was written before the exception stays.
import_payload_partial(cat, shop, payload) ==
    LET acc0 == [cat |-> cat, category_map |-> <<>>, result |-> ZeroResult,
                 processed_external_ids |-> {}, error |-> ""]
        acc1 == ImportCategories(shop, acc0, payload.categories)
        acc2 == ImportGoods(shop, acc1, payload.goods)
        done == [acc2.cat EXCEPT
                   !.product_infos = ZeroUnseen(shop, @, acc2.processed_external_ids)]
    IN  IF acc2.error # ""
        THEN [ok |-> FALSE, error |-> acc2.error, cat |-> acc2.cat, result |-> ZeroResult]
        ELSE [ok |-> TRUE, error |-> "", cat |-> done, result |-> acc2.result]

\* CatalogImporter(shop).import_payload(payload) under @transaction.atomic:
\* the catalog it commits, or the catalog as it was when an exception escapes.
import_payload(cat, shop, payload) ==
    LET acc0 == [cat |-> cat, category_map |-> <<>>, result |-> ZeroResult,
                 processed_external_ids |-> {}, error |-> ""]
        acc1 == ImportCategories(shop, acc0, payload.categories)
        acc2 == ImportGoods(shop, acc1, payload.goods)
        done == [acc2.cat EXCEPT
                   !.product_infos = ZeroUnseen(shop, @, acc2.processed_external_ids)]
    IN  IF acc2.error # ""
        THEN [ok |-> FALSE, error |-> acc2.error, cat |-> cat, result |-> ZeroResult]
        ELSE [ok |-> TRUE, error |-> "", cat |-> done, result |-> acc2.result]

(***************************************************************************)
(* Payloads.  A goods entry is a mapping; a key the entry does not carry   *)
(* has the value Absent.                                                   *)
(***************************************************************************)
CategoryEntry(id, name) == [id |-> id, name |-> name]

GoodsEntry(id, category, name, price, quantity, params) ==
    [id |-> id, category |-> category, name |-> name, model |-> Absent,
     price |-> price, price_rrc |-> Absent, quantity |-> quantity,
     parameters |-> params]

Payload(cats, goods) == [categories |-> cats, goods |-> goods]

NoPayload == Payload(<<>>, <<>>)

\* The catalog the order engine starts from: each shop has imported one listing.
SeedPayload(shop) ==
    Payload(<<CategoryEntry(1, "phones")>>,
            <<GoodsEntry(1, 1, IF shop = 1 THEN "a" ELSE "b",
                         "5", 1, <<>>)>>)

RECURSIVE SeedCatalog(_)
SeedCatalog(n) ==
    IF n = 0 THEN EmptyCatalog
    ELSE import_payload(SeedCatalog(n - 1), n, SeedPayload(n)).cat

(***************************************************************************)
(* models.py: Order, OrderItem                                             *)
(***************************************************************************)
ItemsOf(items, o) == {r \in items : r.order = o}

\* A line total that forgets the quantity.
total_price_unit(item) == item.price

\* OrderItem.total_price
total_price(item) == item.price * item.quantity

\* Order.total_quantity: sum(item.quantity for item in self.items.all())
RECURSIVE SumQuantity(_)
SumQuantity(rows) ==
    IF rows = {} THEN 0
    ELSE LET r == CHOOSE x \in rows : TRUE
         IN  r.quantity + SumQuantity(rows \ {r})

total_quantity(items, o) == SumQuantity(ItemsOf(items, o))

\* Order.total_cost: sum((item.total_price for item in self.items.all()), Decimal("0"))
RECURSIVE SumTotalPrice(_)
SumTotalPrice(rows) ==
    IF rows = {} THEN 0
    ELSE LET r == CHOOSE x \in rows : TRUE
         IN  total_price(r) + SumTotalPrice(rows \ {r})

total_cost(items, o) == SumTotalPrice(ItemsOf(items, o))

(***************************************************************************)
(* views.py: get_user_cart                                                 *)
(***************************************************************************)
CartsOf(ords, u) ==
    {i \in DOMAIN ords : ords[i].user = u /\ ords[i].status = Status_CART}

NewCart(u) == [user |-> u, status |-> Status_CART, contact |-> NoneId, comment |-> ""]

\* Order.objects.get_or_create(user=user, status=CART): get() returns the one
\* match, raises MultipleObjectsReturned on several, and on none a row is created.
get_user_cart(ords, u) ==
    LET carts == CartsOf(ords, u)
    IN  IF Cardinality(carts) > 1
        THEN [outcome |-> "MultipleObjectsReturned", cart |-> NoneId, orders |-> ords]
        ELSE IF carts # {}
        THEN [outcome |-> "found", cart |-> CHOOSE c \in carts : TRUE, orders |-> ords]
        ELSE [outcome |-> "created", cart |-> Len(ords) + 1,
              orders |-> Append(ords, NewCart(u))]

(***************************************************************************)
(* The record of the operation that produced the current state.            *)
(***************************************************************************)
\* op: the handler; outcome: its response; created: the flag update_or_create
\* returned; total_quantity, total_cost: the totals a read reported; admin_mail,
\* buyer_mail: what became of the two notifications of a confirm; partner, listed:
\* the shop a partner listing was made for and the orders it returned; email,
\* token: the fields of a confirm-email request.
NoOp ==
    [op |-> "none", outcome |-> "", created |-> FALSE, total_quantity |-> 0,
     total_cost |-> 0, admin_mail |-> "none", buyer_mail |-> "none",
     partner |-> NoneId, listed |-> {}, email |-> NoneId, token |-> NoneId]

OK == "ok"
ValidationError == "validation_error"
NotFound == "not_found"
ServerError == "server_error"

\* A cartFor by user u has completed: the user's last placed order is forgotten.
Forget(u) == [lastPlaced EXCEPT ![u] = 0]

(***************************************************************************)
(* serializers.py: BasketItemUpdateSerializer                              *)
(***************************************************************************)
\* A validation that rejects a request for the whole stock.
BasketItemUpdateSerializer_validate_strict(infos, pi, quantity) ==
    /\ pi \in DOMAIN infos
    /\ quantity >= 1
    /\ ~(quantity >= infos[pi].quantity)

\* is_valid: the fields (an existing ProductInfo pk, quantity >= 1), then validate().
BasketItemUpdateSerializer_validate(infos, pi, quantity) ==
    /\ pi \in DOMAIN infos
    /\ quantity >= 1
    /\ ~(quantity > infos[pi].quantity)

\* A save that adds the quantity to the one the line holds.
BasketItemUpdateSerializer_save_additive(items, infos, order, pi, quantity) ==
    LET match == {r \in items : r.order = order /\ r.product_info = pi}
        row == [order |-> order, product_info |-> pi, quantity |-> quantity,
                price |-> infos[pi].price]
    IN  IF match = {} THEN items \cup {row}
        ELSE {IF r \in match THEN [r EXCEPT !.quantity = @ + quantity,
                                            !.price = infos[pi].price]
              ELSE r : r \in items}

\* save: OrderItem.objects.update_or_create(order=, product_info=, defaults=)
BasketItemUpdateSerializer_save(items, infos, order, pi, quantity) ==
    LET match == {r \in items : r.order = order /\ r.product_info = pi}
        row == [order |-> order, product_info |-> pi, quantity |-> quantity,
                price |-> infos[pi].price]
    IN  IF match = {} THEN items \cup {row}
        ELSE {IF r \in match THEN [r EXCEPT !.quantity = quantity,
                                            !.price = infos[pi].price]
              ELSE r : r \in items}

(***************************************************************************)
(* serializers.py: OrderConfirmSerializer                                  *)
(***************************************************************************)
ContactIds == {c.id : c \in contacts}
ContactUser(cid) == (CHOOSE c \in contacts : c.id = cid).user

\* The body of validate_contact: the contact belongs to the requesting user.
validate_contact(cid, u) == ContactUser(cid) = u

\* The field is declared as contact_id (source="contact"); the framework looks
\* the field-level hook up under the declared name, validate_contact_id, so
\* the method named validate_contact is not run by is_valid.
DeclaredContactField == "contact_id"
ContactHookRuns == "validate_contact" = "validate_" \o DeclaredContactField

\* is_valid: contact_id is the pk of an existing Contact, then the field hook.
OrderConfirmSerializer_validate(cid, u) ==
    /\ cid \in ContactIds
    /\ ContactHookRuns => validate_contact(cid, u)

\* save: contact, comment and status are written to the order given in the context.
OrderConfirmSerializer_save(ords, order, cid, comment) ==
    [ords EXCEPT ![order] = [@ EXCEPT !.contact = cid,
                                      !.comment = IF comment = Absent THEN "" ELSE comment,
                                      !.status = Status_NEW]]

(***************************************************************************)
(* views.py: the request handlers, each run as one step of the sequential  *)
(* specification.                                                          *)
(***************************************************************************)
Failed(op) == [NoOp EXCEPT !.op = op, !.outcome = ServerError]

\* BasketView.get
BasketGet(u) ==
    LET g == get_user_cart(orders, u)
    IN  /\ Len(g.orders) <= MaxOrders
        /\ orders' = g.orders
        /\ IF g.outcome = "MultipleObjectsReturned"
           THEN /\ lastOp' = Failed("basket_get")
                /\ UNCHANGED lastPlaced
           ELSE /\ lastOp' = [NoOp EXCEPT !.op = "basket_get", !.outcome = OK,
                                !.total_quantity = total_quantity(order_items, g.cart),
                                !.total_cost = total_cost(order_items, g.cart)]
                /\ lastPlaced' = Forget(u)
        /\ UNCHANGED <<accountVars, catalogVars, contacts, order_items, lastImport, req, imports>>

\* BasketView.post and BasketView.patch (the same code up to the response)
BasketSetLine(u, pi, q) ==
    LET g == get_user_cart(orders, u)
        valid == BasketItemUpdateSerializer_validate(product_infos, pi, q)
        match == {r \in order_items : r.order = g.cart /\ r.product_info = pi}
        done == [NoOp EXCEPT !.op = "set_line"]
    IN  /\ Len(g.orders) <= MaxOrders
        /\ orders' = g.orders
        /\ IF g.outcome = "MultipleObjectsReturned"
           THEN /\ lastOp' = Failed("set_line")
                /\ UNCHANGED <<order_items, lastPlaced>>
           ELSE /\ lastPlaced' = Forget(u)
                /\ IF valid
                   THEN /\ order_items' = BasketItemUpdateSerializer_save(
                                              order_items, product_infos, g.cart, pi, q)
                        /\ lastOp' = [done EXCEPT !.outcome = OK, !.created = match = {}]
                   ELSE /\ UNCHANGED order_items
                        /\ lastOp' = [done EXCEPT !.outcome = ValidationError]
        /\ UNCHANGED <<accountVars, catalogVars, contacts, lastImport, req, imports>>

\* A delete that empties the cart.
BasketDelete_clear(u, pi) ==
    LET g == get_user_cart(orders, u)
        match == {r \in order_items : r.order = g.cart /\ r.product_info = pi}
        done == [NoOp EXCEPT !.op = "remove_line"]
    IN  /\ Len(g.orders) <= MaxOrders
        /\ orders' = g.orders
        /\ IF g.outcome = "MultipleObjectsReturned"
           THEN /\ lastOp' = Failed("remove_line")
                /\ UNCHANGED <<order_items, lastPlaced>>
           ELSE /\ lastPlaced' = Forget(u)
                /\ IF pi = NoneId
                   THEN /\ UNCHANGED order_items
                        /\ lastOp' = [done EXCEPT !.outcome = ValidationError]
                   ELSE IF match = {}
                   THEN /\ UNCHANGED order_items
                        /\ lastOp' = [done EXCEPT !.outcome = NotFound]
                   ELSE /\ order_items' = {r \in order_items : r.order # g.cart}
                        /\ lastOp' = [done EXCEPT !.outcome = OK]
        /\ UNCHANGED <<accountVars, catalogVars, contacts, lastImport, req, imports>>

\* BasketView.delete
BasketDelete(u, pi) ==
    LET g == get_user_cart(orders, u)
        match == {r \in order_items : r.order = g.cart /\ r.product_info = pi}
        done == [NoOp EXCEPT !.op = "remove_line"]
    IN  /\ Len(g.orders) <= MaxOrders
        /\ orders' = g.orders
        /\ IF g.outcome = "MultipleObjectsReturned"
           THEN /\ lastOp' = Failed("remove_line")
                /\ UNCHANGED <<order_items, lastPlaced>>
           ELSE /\ lastPlaced' = Forget(u)
                /\ IF pi = NoneId
                   THEN /\ UNCHANGED order_items
                        /\ lastOp' = [done EXCEPT !.outcome = ValidationError]
                   ELSE IF match = {}
                   THEN /\ UNCHANGED order_items
                        /\ lastOp' = [done EXCEPT !.outcome = NotFound]
                   ELSE /\ order_items' = order_items \ match
                        /\ lastOp' = [done EXCEPT !.outcome = OK]
        /\ UNCHANGED <<accountVars, catalogVars, contacts, lastImport, req, imports>>

\* A handler that wrongly takes every cart to have lines.
items_exists_always(items, cart) == TRUE

\* cart.items.exists()
items_exists(items, cart) == ItemsOf(items, cart) # {}

\* services/emails.py: notify_admin_about_order, then
\* send_order_confirmation_to_customer, each one send_mail call with the default
\* fail_silently=False, called by the view outside any try: a delivery failure
\* is an exception that ends the request.  admin_ok, buyer_ok: whether the mail
\* backend delivers the message.
Notify(admin_ok, buyer_ok) ==
    IF ~admin_ok THEN [outcome |-> ServerError, admin_mail |-> "failed", buyer_mail |-> "none"]
    ELSE IF ~buyer_ok
    THEN [outcome |-> ServerError, admin_mail |-> "sent", buyer_mail |-> "failed"]
    ELSE [outcome |-> OK, admin_mail |-> "sent", buyer_mail |-> "sent"]

\* A confirm that takes the quantities of the placed lines out of the stock.
OrderConfirmPost_reserve(u, cid, comment, admin_ok, buyer_ok) ==
    LET g == get_user_cart(orders, u)
        done == [NoOp EXCEPT !.op = "confirm"]
        n == Notify(admin_ok, buyer_ok)
        taken(i) == SumQuantity({r \in ItemsOf(order_items, g.cart) : r.product_info = i})
    IN  /\ Len(g.orders) <= MaxOrders
        /\ IF g.outcome = "MultipleObjectsReturned"
           THEN /\ lastOp' = Failed("confirm")
                /\ UNCHANGED <<orders, lastPlaced, product_infos>>
           ELSE IF ~items_exists(order_items, g.cart)
                   \/ ~OrderConfirmSerializer_validate(cid, u)
           THEN /\ orders' = g.orders
                /\ lastOp' = [done EXCEPT !.outcome = ValidationError]
                /\ lastPlaced' = Forget(u)
                /\ UNCHANGED product_infos
           ELSE /\ orders' = OrderConfirmSerializer_save(g.orders, g.cart, cid, comment)
                /\ lastOp' = [done EXCEPT !.outcome = n.outcome,
                                          !.admin_mail = n.admin_mail,
                                          !.buyer_mail = n.buyer_mail]
                /\ lastPlaced' = [lastPlaced EXCEPT ![u] = g.cart]
                /\ product_infos' =
                      [i \in DOMAIN product_infos |->
                          [product_infos[i] EXCEPT
                              !.quantity = IF @ >= taken(i) THEN @ - taken(i) ELSE 0]]
        /\ UNCHANGED <<accountVars, categories, shop_categories, products, parameters,
                       product_parameters, contacts, order_items, lastImport, req, imports>>

\* OrderConfirmView.post.  The order is saved before the notifications are sent
\* and the view opens no transaction, so the save stays when a send raises.
OrderConfirmPost(u, cid, comment, admin_ok, buyer_ok) ==
    LET g == get_user_cart(orders, u)
        done == [NoOp EXCEPT !.op = "confirm"]
        n == Notify(admin_ok, buyer_ok)
    IN  /\ Len(g.orders) <= MaxOrders
        /\ IF g.outcome = "MultipleObjectsReturned"
           THEN /\ lastOp' = Failed("confirm")
                /\ UNCHANGED <<orders, lastPlaced>>
           ELSE IF ~items_exists(order_items, g.cart)
                   \/ ~OrderConfirmSerializer_validate(cid, u)
           THEN /\ orders' = g.orders
                /\ lastOp' = [done EXCEPT !.outcome = ValidationError]
                /\ lastPlaced' = Forget(u)
           ELSE /\ orders' = OrderConfirmSerializer_save(g.orders, g.cart, cid, comment)
                /\ lastOp' = [done EXCEPT !.outcome = n.outcome,
                                          !.admin_mail = n.admin_mail,
                                          !.buyer_mail = n.buyer_mail]
                /\ lastPlaced' = [lastPlaced EXCEPT ![u] = g.cart]
        /\ UNCHANGED <<accountVars, catalogVars, contacts, order_items, lastImport, req, imports>>

\* OrderConfirmView.post when the mail backend delivers both notifications.
OrderConfirm(u, cid, comment) == OrderConfirmPost(u, cid, comment, TRUE, TRUE)

\* A queryset that forgets to exclude the carts.
OrderViewSet_get_queryset_carts(ords, u) ==
    {o \in DOMAIN ords : ords[o].user = u}

\* OrderViewSet.get_queryset: filter(user=request.user).exclude(status=CART)
OrderViewSet_get_queryset(ords, u) ==
    {o \in DOMAIN ords : ords[o].user = u} \ {o \in DOMAIN ords : ords[o].status = Status_CART}

\* OrderViewSet.list: the queryset through OrderSerializer
OrderList(u) ==
    /\ lastOp' = [NoOp EXCEPT !.op = "order_list", !.outcome = OK,
                   !.listed = {[id |-> o, status |-> orders[o].status,
                                contact |-> orders[o].contact,
                                total_quantity |-> total_quantity(order_items, o),
                                total_cost |-> total_cost(order_items, o),
                                items |-> ItemsOf(order_items, o)] :
                                  o \in OrderViewSet_get_queryset(orders, u)}]
    /\ UNCHANGED <<accountVars, catalogVars, orderVars, lastImport, lastPlaced, req, imports>>

\* OrderViewSet.retrieve over get_queryset: the caller's orders, the cart excluded
OrderRetrieve(u, o) ==
    LET visible == o \in OrderViewSet_get_queryset(orders, u)
    IN  /\ lastOp' = IF visible
                     THEN [NoOp EXCEPT !.op = "order_retrieve", !.outcome = OK,
                             !.total_quantity = total_quantity(order_items, o),
                             !.total_cost = total_cost(order_items, o)]
                     ELSE [NoOp EXCEPT !.op = "order_retrieve", !.outcome = NotFound]
        /\ UNCHANGED <<accountVars, catalogVars, orderVars, lastImport, lastPlaced, req, imports>>

\* A deletion that takes the referencing orders with it (on_delete=CASCADE).
Contact_delete_cascade(cs, ords, items, cid) ==
    [ok |-> TRUE,
     contacts |-> {c \in cs : c.id # cid},
     orders |-> [o \in DOMAIN ords |->
                    IF ords[o].contact = cid
                    THEN [ords[o] EXCEPT !.contact = NoneId, !.status = Status_CANCELLED]
                    ELSE ords[o]]]

\* Contact.delete(): Order.contact is on_delete=PROTECT, so the collector raises
\* ProtectedError when an Order references the Contact and nothing is deleted.
Contact_delete(cs, ords, items, cid) ==
    IF \E o \in DOMAIN ords : ords[o].contact = cid
    THEN [ok |-> FALSE, contacts |-> cs, orders |-> ords]
    ELSE [ok |-> TRUE, contacts |-> {c \in cs : c.id # cid}, orders |-> ords]

\* ContactViewSet.destroy: the object is looked up among the caller's contacts;
\* ProtectedError is no APIException and no view catches it.
ContactDelete(u, cid) ==
    LET own == \E c \in contacts : c.id = cid /\ c.user = u
        d == Contact_delete(contacts, orders, order_items, cid)
        done == [NoOp EXCEPT !.op = "contact_delete"]
    IN  /\ IF ~own
           THEN /\ lastOp' = [done EXCEPT !.outcome = NotFound]
                /\ UNCHANGED <<contacts, orders>>
           ELSE /\ lastOp' = [done EXCEPT !.outcome = IF d.ok THEN OK ELSE ServerError]
                /\ contacts' = d.contacts
                /\ orders' = d.orders
        /\ UNCHANGED <<accountVars, catalogVars, order_items, lastImport, lastPlaced, req, imports>>

\* PartnerOrdersView.get_queryset: the orders with a line of a listing of the
\* caller's shop, each once (distinct), whatever their status.
PartnerOrdersView_get_queryset(ords, items, infos, shop) ==
    {o \in DOMAIN ords :
        \E r \in ItemsOf(items, o) : infos[r.product_info].shop = shop}

\* The "shop" entry of the serializer context.  PartnerOrdersView.list calls
\* get_serializer(queryset, many=True), whose context holds request, format and
\* view only: context.get("shop") is None.
PartnerOrdersView_context_shop(shop) == NoneId

\* PartnerOrderSerializer.get_items: the lines of the order, narrowed to the
\* context's shop when the context has one; each line with its total_price.
PartnerOrderSerializer_get_items(items, infos, o, context_shop) ==
    LET queryset == IF context_shop # NoneId
                    THEN {r \in ItemsOf(items, o) :
                             infos[r.product_info].shop = context_shop}
                    ELSE ItemsOf(items, o)
    IN  {[product_info |-> r.product_info, quantity |-> r.quantity,
          price |-> r.price, total_price |-> total_price(r)] : r \in queryset}

\* PartnerOrdersView.list for the owner of shop
PartnerOrdersList(shop) ==
    LET queryset == PartnerOrdersView_get_queryset(orders, order_items, product_infos, shop)
        data == {[id |-> o, status |-> orders[o].status,
                  items |-> PartnerOrderSerializer_get_items(
                                order_items, product_infos, o,
                                PartnerOrdersView_context_shop(shop))] : o \in queryset}
    IN  /\ lastOp' = [NoOp EXCEPT !.op = "partner_orders", !.outcome = OK,
                                  !.partner = shop, !.listed = data]
        /\ UNCHANGED <<accountVars, catalogVars, orderVars, lastImport, lastPlaced, req, imports>>

\* A status update that returns the lines of a cancelled order to the stock.
OrderStatusUpdate_restock(o, s) ==
    LET done == [NoOp EXCEPT !.op = "set_status"]
        back(i) == SumQuantity({r \in ItemsOf(order_items, o) : r.product_info = i})
    IN  /\ IF o \notin DOMAIN orders
           THEN /\ lastOp' = [done EXCEPT !.outcome = NotFound]
                /\ UNCHANGED <<orders, product_infos>>
           ELSE IF s \notin Status
           THEN /\ lastOp' = [done EXCEPT !.outcome = ValidationError]
                /\ UNCHANGED <<orders, product_infos>>
           ELSE /\ lastOp' = [done EXCEPT !.outcome = OK]
                /\ orders' = [orders EXCEPT ![o].status = s]
                /\ product_infos' =
                      IF s = Status_CANCELLED
                      THEN [i \in DOMAIN product_infos |->
                              [product_infos[i] EXCEPT !.quantity = @ + back(i)]]
                      ELSE product_infos
        /\ UNCHANGED <<accountVars, categories, shop_categories, products, parameters,
                       product_parameters, contacts, order_items, lastImport, lastPlaced,
                       req, imports>>

\* A status update that refuses to leave completed and cancelled.
OrderStatusUpdate_terminal(o, s) ==
    LET done == [NoOp EXCEPT !.op = "set_status"]
    IN  /\ IF o \notin DOMAIN orders
           THEN /\ lastOp' = [done EXCEPT !.outcome = NotFound]
                /\ UNCHANGED orders
           ELSE IF s \notin Status
                   \/ orders[o].status \in {Status_COMPLETED, Status_CANCELLED}
           THEN /\ lastOp' = [done EXCEPT !.outcome = ValidationError]
                /\ UNCHANGED orders
           ELSE /\ lastOp' = [done EXCEPT !.outcome = OK]
                /\ orders' = [orders EXCEPT ![o].status = s]
        /\ UNCHANGED <<accountVars, catalogVars, contacts, order_items, lastImport, lastPlaced, req, imports>>

\* OrderStatusUpdateView (administrator): OrderStatusSerializer accepts every
\* member of Order.Status.choices and writes it.
OrderStatusUpdate(o, s) ==
    LET done == [NoOp EXCEPT !.op = "set_status"]
    IN  /\ IF o \notin DOMAIN orders
           THEN /\ lastOp' = [done EXCEPT !.outcome = NotFound]
                /\ UNCHANGED orders
           ELSE IF s \notin Status
           THEN /\ lastOp' = [done EXCEPT !.outcome = ValidationError]
                /\ UNCHANGED orders
           ELSE /\ lastOp' = [done EXCEPT !.outcome = OK]
                /\ orders' = [orders EXCEPT ![o].status = s]
        /\ UNCHANGED <<accountVars, catalogVars, contacts, order_items, lastImport, lastPlaced, req, imports>>

\* An import that also rewrites the price of the lines of the listings it touched.
PartnerImport_reprice(shop, payload) ==
    LET r == import_payload(Catalog, shop, payload)
    IN  /\ categories' = r.cat.categories
        /\ shop_categories' = r.cat.shop_categories
        /\ products' = r.cat.products
        /\ product_infos' = r.cat.product_infos
        /\ parameters' = r.cat.parameters
        /\ product_parameters' = r.cat.product_parameters
        /\ lastOp' = [NoOp EXCEPT !.op = "import",
                                  !.outcome = IF r.ok THEN OK ELSE ServerError]
        /\ order_items' = {[x EXCEPT !.price = r.cat.product_infos[x.product_info].price] :
                              x \in order_items}
        /\ UNCHANGED <<accountVars, contacts, orders, lastPlaced, req>>

\* PartnerImportView.post once the payload is a mapping: the shop's importer runs.
\* The specification that runs it says what is recorded of the call.
PartnerImport(shop, payload) ==
    LET r == import_payload(Catalog, shop, payload)
    IN  /\ categories' = r.cat.categories
        /\ shop_categories' = r.cat.shop_categories
        /\ products' = r.cat.products
        /\ product_infos' = r.cat.product_infos
        /\ parameters' = r.cat.parameters
        /\ product_parameters' = r.cat.product_parameters
        /\ lastOp' = [NoOp EXCEPT !.op = "import",
                                  !.outcome = IF r.ok THEN OK ELSE ServerError]
        /\ UNCHANGED <<accountVars, orderVars, lastPlaced, req>>

(***************************************************************************)
(* views.py: RegistrationView, EmailConfirmationView                       *)
(***************************************************************************)
\* RegistrationView.perform_create: the user is created (email is unique,
\* email_verified defaults to False) and one EmailConfirmationToken with it.
\* The user's number stands for the email and for the token's random value.
Register(u, role) ==
    LET done == [NoOp EXCEPT !.op = "register", !.email = u]
    IN  /\ IF accounts[u].registered
           THEN /\ lastOp' = [done EXCEPT !.outcome = ValidationError]
                /\ UNCHANGED accountVars
           ELSE /\ lastOp' = [done EXCEPT !.outcome = OK]
                /\ accounts' = [accounts EXCEPT ![u] =
                      [registered |-> TRUE, role |-> role, email_verified |-> FALSE]]
                /\ email_tokens' = email_tokens \cup
                      {[token |-> u, user |-> u, is_used |-> FALSE, expired |-> FALSE]}
        /\ UNCHANGED <<catalogVars, orderVars, lastImport, lastPlaced, req, imports>>

\* A lookup that also finds the tokens already used.
EmailToken_get_used(tokens, u, token_value) ==
    {k \in tokens : k.user = u /\ k.token = token_value}

\* user.email_tokens.get(token=token_value, is_used=False)
EmailToken_get(tokens, u, token_value) ==
    {k \in tokens : k.user = u /\ k.token = token_value /\ ~k.is_used}

\* EmailConfirmationView.post
EmailConfirm(email, token_value) ==
    LET done == [NoOp EXCEPT !.op = "confirm_email", !.email = email,
                             !.token = token_value]
        found == EmailToken_get(email_tokens, email, token_value)
        token == CHOOSE k \in found : TRUE
    IN  /\ IF email = NoneId \/ token_value = NoneId
           THEN /\ lastOp' = [done EXCEPT !.outcome = ValidationError]
                /\ UNCHANGED accountVars
           ELSE IF email \notin Users \/ ~accounts[email].registered
           THEN /\ lastOp' = [done EXCEPT !.outcome = NotFound]
                /\ UNCHANGED accountVars
           ELSE IF found = {} \/ token.expired
           THEN /\ lastOp' = [done EXCEPT !.outcome = ValidationError]
                /\ UNCHANGED accountVars
           ELSE /\ lastOp' = [done EXCEPT !.outcome = OK]
                /\ email_tokens' = (email_tokens \ {token})
                                       \cup {[token EXCEPT !.is_used = TRUE]}
                /\ accounts' = [accounts EXCEPT ![email].email_verified = TRUE]
        /\ UNCHANGED <<catalogVars, orderVars, lastImport, lastPlaced, req, imports>>

\* Time passes token.expires_at (24 hours after the token was created).
TokenExpire(k) ==
    /\ k \in email_tokens
    /\ ~k.expired
    /\ email_tokens' = (email_tokens \ {k}) \cup {[k EXCEPT !.expired = TRUE]}
    /\ lastOp' = [NoOp EXCEPT !.op = "clock"]
    /\ UNCHANGED <<accounts, catalogVars, orderVars, lastImport, lastPlaced, req, imports>>

(***************************************************************************)
(* The sequential specification: requests run one at a time.               *)
(***************************************************************************)
Idle == [pc |-> "idle", user |-> 0, cart |-> 0]

InitOrders ==
    /\ contacts = {[id |-> u, user |-> u] : u \in Users}
    /\ orders = <<>>
    /\ order_items = {}
    /\ lastOp = NoOp
    /\ lastImport = [shop |-> 0, payload |-> NoPayload, ok |-> FALSE, error |-> "",
                     result |-> ZeroResult, repeat |-> FALSE]
    /\ lastPlaced = [u \in Users |-> 0]
    /\ req = [p \in Procs |-> Idle]
    /\ imports = 0

InitCatalog(cat) ==
    /\ categories = cat.categories
    /\ shop_categories = cat.shop_categories
    /\ products = cat.products
    /\ product_infos = cat.product_infos
    /\ parameters = cat.parameters
    /\ product_parameters = cat.product_parameters

\* User.Role
Role_BUYER == "buyer"
Role_SHOP == "shop"

\* The users of the order specifications: registered buyers who confirmed their
\* email with the token their registration created.
InitVerified ==
    /\ accounts = [u \in Users |->
                     [registered |-> TRUE, role |-> Role_BUYER, email_verified |-> TRUE]]
    /\ email_tokens = {[token |-> u, user |-> u, is_used |-> TRUE, expired |-> FALSE] :
                          u \in Users}

Init == InitCatalog(SeedCatalog(NumShops)) /\ InitOrders /\ InitVerified

\* Price lists shop 1 sends while orders are being made: its one listing, repriced
\* and restocked.
RepricePayloads ==
    {SeedPayload(1),
     Payload(<<CategoryEntry(1, "phones")>>, <<GoodsEntry(1, 1, "a", "10", MaxStock, <<>>)>>)}

\* The buyer whose requests this specification runs; the other users own contacts.
Buyers == {1}

PiInputs == 0..(Len(product_infos) + 1)
QuantityInputs == 0..(MaxStock + 1)
ContactInputs == 1..(NumUsers + 1)
OrderInputs == 1..(MaxOrders + 1)
\* The statuses the administrator sends in this specification: an order is put
\* back to cart, or the value is outside the enumeration.
StatusInputs == {Status_CART, "unknown"}

Next ==
    \/ \E u \in Buyers : BasketGet(u)
    \/ \E u \in Buyers, pi \in PiInputs, q \in QuantityInputs : BasketSetLine(u, pi, q)
    \/ \E u \in Buyers, pi \in PiInputs : BasketDelete(u, pi)
    \/ \E u \in Buyers, cid \in ContactInputs, admin_ok \in BOOLEAN, buyer_ok \in BOOLEAN :
          OrderConfirmPost(u, cid, "note", admin_ok, buyer_ok)
    \/ \E u \in Buyers, o \in OrderInputs : OrderRetrieve(u, o)
    \/ \E o \in OrderInputs, s \in StatusInputs : OrderStatusUpdate(o, s)
    \/ \E payload \in RepricePayloads :
          PartnerImport(1, payload) /\ UNCHANGED <<imports, lastImport>>
    \/ \E shop \in Shops : PartnerOrdersList(shop)

Spec == Init /\ [][Next]_vars

(***************************************************************************)
(* The order lifecycle specification: one buyer fills and confirms carts   *)
(* of one listing while the administrator sends every status.              *)
(***************************************************************************)
\* The values the administrator sends: the members of Order.Status and one
\* value outside the enumeration.
AdminStatusInputs == Status \cup {"unknown"}

NextAdmin ==
    \/ \E u \in Buyers : BasketGet(u)
    \/ \E u \in Buyers : BasketSetLine(u, 1, 1)
    \/ \E u \in Buyers : BasketDelete(u, 1)
    \/ \E u \in Buyers : OrderConfirm(u, u, "")
    \/ \E o \in OrderInputs, s \in AdminStatusInputs : OrderStatusUpdate(o, s)

SpecAdmin == Init /\ [][NextAdmin]_vars

(***************************************************************************)
(* The contact specification: a buyer places orders with the contacts that *)
(* exist while the users delete contacts.                                  *)
(***************************************************************************)
NextContact ==
    \/ \E u \in Buyers : BasketSetLine(u, 1, 1)
    \/ \E u \in Buyers, cid \in ContactInputs : OrderConfirm(u, cid, "")
    \/ \E u \in Users, cid \in ContactInputs : ContactDelete(u, cid)

SpecContact == Init /\ [][NextContact]_vars

(***************************************************************************)
(* The order history specification: every user fills and confirms carts    *)
(* and reads their orders.                                                 *)
(***************************************************************************)
NextOrders ==
    \/ \E u \in Users : BasketSetLine(u, 1, 1)
    \/ \E u \in Users : OrderConfirm(u, u, "")
    \/ \E u \in Users : OrderList(u)
    \/ \E u \in Users, o \in OrderInputs : OrderRetrieve(u, o)

SpecOrders == Init /\ [][NextOrders]_vars

(***************************************************************************)
(* The account specification: users register and confirm their email.      *)
(***************************************************************************)
InitRegistration ==
    /\ accounts = [u \in Users |->
                     [registered |-> FALSE, role |-> Role_BUYER, email_verified |-> FALSE]]
    /\ email_tokens = {}

InitAccount == InitCatalog(SeedCatalog(NumShops)) /\ InitOrders /\ InitRegistration

\* The email and token fields of a request: absent, a user's, or unknown.
EmailInputs == 0..(NumUsers + 1)
TokenInputs == 0..(NumUsers + 1)

NextAccount ==
    \/ \E u \in Users, role \in {Role_BUYER, Role_SHOP} : Register(u, role)
    \/ \E email \in EmailInputs, token_value \in TokenInputs : EmailConfirm(email, token_value)
    \/ \E k \in email_tokens : TokenExpire(k)

SpecAccount == InitAccount /\ [][NextAccount]_vars

(***************************************************************************)
(* The concurrent specification: requests of several clients interleave at *)
(* the granularity of the queries they send to the store.                  *)
(***************************************************************************)
\* A client sends a cart request for user u; the view calls get_user_cart.
CartForStart(p, u) ==
    /\ req[p].pc = "idle"
    /\ req' = [req EXCEPT ![p] = [pc |-> "get", user |-> u, cart |-> NoneId]]
    /\ UNCHANGED <<accountVars, catalogVars, orderVars, lastOp, lastImport, lastPlaced, imports>>

\* get_or_create, first query: get(user=user, status=CART)
CartForGet(p) ==
    LET carts == CartsOf(orders, req[p].user)
    IN  /\ req[p].pc = "get"
        /\ req' = [req EXCEPT ![p] =
                     IF Cardinality(carts) > 1 THEN [@ EXCEPT !.pc = "raised"]
                     ELSE IF carts # {}
                     THEN [@ EXCEPT !.pc = "returned", !.cart = CHOOSE c \in carts : TRUE]
                     ELSE [@ EXCEPT !.pc = "create"]]
        /\ UNCHANGED <<accountVars, catalogVars, orderVars, lastOp, lastImport, lastPlaced, imports>>

\* get_or_create, second query: create(user=user, status=CART); the Order table
\* has no uniqueness constraint the insert could violate.
CartForCreate(p) ==
    /\ req[p].pc = "create"
    /\ Len(orders) < MaxOrders
    /\ orders' = Append(orders, NewCart(req[p].user))
    /\ req' = [req EXCEPT ![p] = [@ EXCEPT !.pc = "returned", !.cart = Len(orders) + 1]]
    /\ UNCHANGED <<accountVars, catalogVars, contacts, order_items, lastOp, lastImport, lastPlaced,
                   imports>>

\* The response is sent and the call is over.
CartForReturn(p) ==
    /\ req[p].pc \in {"returned", "raised"}
    /\ req' = [req EXCEPT ![p] = Idle]
    /\ UNCHANGED <<accountVars, catalogVars, orderVars, lastOp, lastImport, lastPlaced, imports>>

NextConc ==
    \/ \E p \in Procs, u \in Users : CartForStart(p, u)
    \/ \E p \in Procs : CartForGet(p)
    \/ \E p \in Procs : CartForCreate(p)
    \/ \E p \in Procs : CartForReturn(p)

SpecConc == Init /\ [][NextConc]_vars

(***************************************************************************)
(* The concurrent basket specification: setLine, removeLine and confirm    *)
(* requests of buyers interleave at the granularity of the queries the     *)
(* views send; no view opens a transaction or locks the Order row.         *)
(***************************************************************************)
\* A client sends a basket or confirm request for user u.
BasketStart(p, u, op, pi) ==
    /\ req[p].pc = "idle"
    /\ req' = [req EXCEPT ![p] = [pc |-> "cart", user |-> u, cart |-> NoneId,
                                  op |-> op, pi |-> pi]]
    /\ UNCHANGED <<accountVars, catalogVars, orderVars, lastOp, lastImport, lastPlaced, imports>>

\* The first statement of each of the three views: cart = get_user_cart(user).
BasketCart(p) ==
    LET g == get_user_cart(orders, req[p].user)
        then == CASE req[p].op = "set_line" -> "save"
                  [] req[p].op = "remove_line" -> "delete"
                  [] OTHER -> "exists"
    IN  /\ req[p].pc = "cart"
        /\ Len(g.orders) <= MaxOrders
        /\ orders' = g.orders
        /\ req' = [req EXCEPT ![p] =
                     IF g.outcome = "MultipleObjectsReturned"
                     THEN [@ EXCEPT !.pc = "done"]
                     ELSE [@ EXCEPT !.pc = then, !.cart = g.cart]]
        /\ UNCHANGED <<accountVars, catalogVars, contacts, order_items, lastOp, lastImport, lastPlaced,
                       imports>>

\* BasketView.post: is_valid, then serializer.save() on the cart read before.
BasketSave(p) ==
    /\ req[p].pc = "save"
    /\ IF BasketItemUpdateSerializer_validate(product_infos, req[p].pi, 1)
       THEN order_items' = BasketItemUpdateSerializer_save(
                               order_items, product_infos, req[p].cart, req[p].pi, 1)
       ELSE UNCHANGED order_items
    /\ req' = [req EXCEPT ![p] = [@ EXCEPT !.pc = "done"]]
    /\ UNCHANGED <<accountVars, catalogVars, contacts, orders, lastOp, lastImport, lastPlaced, imports>>

\* BasketView.delete: cart.items.get(product_info_id=) and item.delete() on the
\* cart read before.
BasketRemove(p) ==
    /\ req[p].pc = "delete"
    /\ order_items' = {r \in order_items :
                          ~(r.order = req[p].cart /\ r.product_info = req[p].pi)}
    /\ req' = [req EXCEPT ![p] = [@ EXCEPT !.pc = "done"]]
    /\ UNCHANGED <<accountVars, catalogVars, contacts, orders, lastOp, lastImport, lastPlaced, imports>>

\* OrderConfirmView.post: cart.items.exists()
ConfirmExists(p) ==
    /\ req[p].pc = "exists"
    /\ req' = [req EXCEPT ![p] =
                 [@ EXCEPT !.pc = IF items_exists(order_items, req[p].cart)
                                  THEN "confirm" ELSE "done"]]
    /\ UNCHANGED <<accountVars, catalogVars, orderVars, lastOp, lastImport, lastPlaced, imports>>

\* OrderConfirmView.post: is_valid and serializer.save() with the user's own contact.
ConfirmSave(p) ==
    /\ req[p].pc = "confirm"
    /\ orders' = OrderConfirmSerializer_save(orders, req[p].cart, req[p].user, "")
    /\ req' = [req EXCEPT ![p] = [@ EXCEPT !.pc = "done"]]
    /\ UNCHANGED <<accountVars, catalogVars, contacts, order_items, lastOp, lastImport, lastPlaced,
                   imports>>

\* The response is sent.
BasketReturn(p) ==
    /\ req[p].pc = "done"
    /\ req' = [req EXCEPT ![p] = Idle]
    /\ UNCHANGED <<accountVars, catalogVars, orderVars, lastOp, lastImport, lastPlaced, imports>>

NextBasket ==
    \/ \E p \in Procs, u \in Buyers, pi \in DOMAIN product_infos :
          BasketStart(p, u, "set_line", pi)
    \/ \E p \in Procs, u \in Buyers, pi \in DOMAIN product_infos :
          BasketStart(p, u, "remove_line", pi)
    \/ \E p \in Procs, u \in Buyers : BasketStart(p, u, "confirm", NoneId)
    \/ \E p \in Procs : BasketCart(p)
    \/ \E p \in Procs : BasketSave(p)
    \/ \E p \in Procs : BasketRemove(p)
    \/ \E p \in Procs : ConfirmExists(p)
    \/ \E p \in Procs : ConfirmSave(p)
    \/ \E p \in Procs : BasketReturn(p)

SpecBasket == Init /\ [][NextBasket]_vars

(***************************************************************************)
(* Claims about the cart and the order.                                    *)
(***************************************************************************)
\* C1: whenever all concurrent cartFor calls have finished, every user has at most
\* one Order with status cart.
C1_OneCartAfterConcurrentCartFor ==
    (\A p \in Procs : req[p].pc = "idle")
        => \A u \in Users : Cardinality(CartsOf(orders, u)) <= 1

\* C2: in every state reachable by cartFor, setLine, removeLine, confirm and the
\* administrator's setStatus, each user has at most one Order with status cart.
C2_SingleActiveCart ==
    \A u \in Users : Cardinality(CartsOf(orders, u)) <= 1

\* The cart the handler of user u's request works on in the current state.
CartOf(u) == get_user_cart(orders, u).cart

\* C3: a successful confirm turns the cart into status new, keeping the row and its
\* lines, and the user's next cartFor creates a new, empty cart Order instead of
\* reusing the placed one.
C3_ConfirmThenNewCart ==
    [][/\ \A u \in Buyers, cid \in ContactInputs :
            (lastOp'.op = "confirm" /\ lastOp'.outcome = OK /\ OrderConfirm(u, cid, "note"))
                => /\ CartOf(u) \in DOMAIN orders
                   /\ Len(orders') = Len(orders)
                   /\ orders'[CartOf(u)].status = Status_NEW
                   /\ orders'[CartOf(u)].user = u
                   /\ order_items' = order_items
       /\ \A u \in Users :
            (lastPlaced[u] # 0 /\ lastPlaced'[u] = 0)
                => /\ Len(orders') = Len(orders) + 1
                   /\ orders'[Len(orders')] = NewCart(u)
                   /\ CartsOf(orders', u) = {Len(orders')}
                   /\ ItemsOf(order_items, Len(orders')) = {}
      ]_vars

\* C4: a successful setLine(cart, pi, q) leaves exactly one line for pi in the cart,
\* with quantity q (not the sum with the earlier quantity) and the listing's current
\* price, and touches no other line.
C4_CartOverwrite ==
    [][\A u \in Buyers, pi \in PiInputs, q \in QuantityInputs :
          (lastOp'.op = "set_line" /\ lastOp'.outcome = OK /\ BasketSetLine(u, pi, q))
              => LET c == CartOf(u)
                     here(r) == r.order = c /\ r.product_info = pi
                 IN  /\ {r \in order_items' : here(r)} =
                            {[order |-> c, product_info |-> pi, quantity |-> q,
                              price |-> product_infos'[pi].price]}
                     /\ {r \in order_items' : ~here(r)} = {r \in order_items : ~here(r)}
      ]_vars

\* A setLine has just replaced an existing line, which now holds the whole stock.
C4_Witness ==
    /\ lastOp.op = "set_line" /\ lastOp.outcome = OK /\ ~lastOp.created
    /\ \E r \in order_items : r.quantity = MaxStock

\* C5: setLine with q < 1 or q above the listing's stock fails with a validation
\* error and leaves the lines unchanged; with 1 <= q <= stock it succeeds.
C5_StockValidation ==
    [][\A u \in Buyers, pi \in DOMAIN product_infos, q \in QuantityInputs :
          (lastOp'.op = "set_line" /\ lastOp'.outcome # ServerError
             /\ BasketSetLine(u, pi, q))
              => IF q < 1 \/ q > product_infos[pi].quantity
                 THEN lastOp'.outcome = ValidationError /\ order_items' = order_items
                 ELSE lastOp'.outcome = OK
      ]_vars

\* A setLine has just succeeded for the whole stock of a listing.
C5_Witness ==
    /\ lastOp.op = "set_line" /\ lastOp.outcome = OK
    /\ \E r \in order_items :
          r.quantity = product_infos[r.product_info].quantity /\ r.quantity = MaxStock

\* C6: confirm with a contact of another user fails with a validation error and
\* the Order keeps status cart, its contact and its comment.
C6_ForeignContactRejected ==
    [][\A u \in Buyers, cid \in ContactIds :
          (lastOp'.op = "confirm" /\ lastOp'.outcome # ServerError
             /\ ContactUser(cid) # u /\ OrderConfirm(u, cid, "note"))
              => /\ lastOp'.outcome = ValidationError
                 /\ orders'[CartOf(u)].status = Status_CART
                 /\ CartOf(u) \in DOMAIN orders => orders'[CartOf(u)] = orders[CartOf(u)]
      ]_vars

\* C7: confirm on a cart without lines fails with a validation error for every
\* contact id, and the Order keeps status cart, its contact and its comment.
C7_EmptyCartRejected ==
    [][\A u \in Buyers, cid \in ContactInputs :
          (lastOp'.op = "confirm" /\ lastOp'.outcome # ServerError
             /\ ItemsOf(order_items, CartOf(u)) = {} /\ OrderConfirm(u, cid, "note"))
              => /\ lastOp'.outcome = ValidationError
                 /\ orders'[CartOf(u)] = IF CartOf(u) \in DOMAIN orders
                                         THEN orders[CartOf(u)] ELSE NewCart(u)
                 /\ orders'[CartOf(u)].status = Status_CART
      ]_vars

\* A confirm has just been rejected for a cart without lines that carries the
\* contact of an earlier confirmation.
C7_Witness ==
    /\ lastOp.op = "confirm" /\ lastOp.outcome = ValidationError
    /\ \E u \in Buyers : \E c \in CartsOf(orders, u) :
          ItemsOf(order_items, c) = {} /\ orders[c].contact # NoneId

\* C8: the price of an existing line changes in no step other than a successful
\* setLine on the same cart and listing; import, confirm and setStatus keep it.
C8_PriceSnapshot ==
    [][\A r \in order_items : \A r2 \in order_items' :
          (r2.order = r.order /\ r2.product_info = r.product_info /\ r2.price # r.price)
              => \E u \in Buyers, q \in QuantityInputs :
                    /\ lastOp'.op = "set_line" /\ lastOp'.outcome = OK
                    /\ CartOf(u) = r.order
                    /\ BasketSetLine(u, r.product_info, q)
      ]_vars

\* An import has just left a line of a placed order priced differently from its listing.
C8_Witness ==
    /\ lastOp.op = "import" /\ lastOp.outcome = OK
    /\ \E r \in order_items :
          /\ r.price # product_infos[r.product_info].price
          /\ orders[r.order].status = Status_NEW

\* The units and the money of an order, counted one by one from its lines.
UnitsOf(items, o) ==
    UNION {{<<r, k>> : k \in 1..r.quantity} : r \in ItemsOf(items, o)}

MoneyOf(items, o) ==
    UNION {{<<r, k, c>> : k \in 1..r.quantity, c \in 1..r.price} :
              r \in ItemsOf(items, o)}

\* C9: the totalQuantity a read reports is the sum of the quantities of the order's
\* current lines and the totalCost the sum of price x quantity over them (0 without
\* lines), whatever was written to the lines before the read.
C9_TotalsFromLines ==
    [][/\ \A u \in Buyers :
            (lastOp'.op = "basket_get" /\ lastOp'.outcome = OK /\ BasketGet(u))
                => /\ lastOp'.total_quantity = Cardinality(UnitsOf(order_items', CartOf(u)))
                   /\ lastOp'.total_cost = Cardinality(MoneyOf(order_items', CartOf(u)))
       /\ \A u \in Buyers, o \in OrderInputs :
            (lastOp'.op = "order_retrieve" /\ lastOp'.outcome = OK /\ OrderRetrieve(u, o))
                => /\ lastOp'.total_quantity = Cardinality(UnitsOf(order_items', o))
                   /\ lastOp'.total_cost = Cardinality(MoneyOf(order_items', o))
      ]_vars

\* A read has just reported 3 units for 25: two units at 10 and one at 5.
C9_Witness ==
    /\ lastOp.op \in {"basket_get", "order_retrieve"} /\ lastOp.outcome = OK
    /\ lastOp.total_quantity = 3 /\ lastOp.total_cost = 25

(***************************************************************************)
(* The import specification: suppliers send price lists, one import at a   *)
(* time, into a catalog that starts empty.                                 *)
(***************************************************************************)
K1 == <<CategoryEntry(1, "phones")>>
K2 == <<CategoryEntry(1, "phones"), CategoryEntry(2, "tv")>>
\* category 1 has no name
K3 == <<CategoryEntry(1, ""), CategoryEntry(2, "tv")>>
\* the category entry has no id
K4 == <<CategoryEntry(NoneId, "phones")>>

E1 == GoodsEntry(1, 1, "a", "5", 1, <<<<"color", 1>>>>)
\* E1 repriced, restocked, with another parameter set
E2 == GoodsEntry(1, 1, "a", "10", 2, <<<<"color", 2>>, <<"size", 1>>>>)
\* parameters is not a mapping
E3 == GoodsEntry(2, 1, "b", "5", 1, NotMapping)
\* the external id of E1 under another product name
E4 == GoodsEntry(1, 1, "b", "5", 1, <<>>)
\* the price is not a number
E5 == GoodsEntry(2, 2, "a", "abc", 1, <<>>)
\* no category, no name, no model
E6 == GoodsEntry(2, NoneId, Absent, "5", 1, <<>>)
E7 == GoodsEntry(2, 2, "b", "10", 2, <<>>)
\* E1 with another parameter and no color
E8 == GoodsEntry(1, 1, "a", "5", 1, <<<<"size", 2>>>>)

ImportPayloads ==
    {Payload(K1, <<E1>>), Payload(K1, <<E2, E3>>), Payload(K1, <<E1, E2>>),
     Payload(K1, <<E1, E4>>), Payload(K2, <<E3, E5>>), Payload(K3, <<E1, E7>>),
     Payload(K1, <<E6>>), Payload(K4, <<E6>>), Payload(K2, <<>>),
     Payload(K2, <<E7>>), Payload(K1, <<E3>>), Payload(K1, <<E8>>)}

InitImport == InitCatalog(EmptyCatalog) /\ InitOrders /\ InitVerified

\* What the import specification records of a call: the call, the ImportResult it
\* returned, and whether it repeated the successful call before it.
ImportRecord(shop, payload) ==
    LET r == import_payload(Catalog, shop, payload)
    IN  [shop |-> shop, payload |-> payload, ok |-> r.ok, error |-> r.error,
         result |-> r.result,
         repeat |-> lastImport.ok /\ lastImport.shop = shop /\ lastImport.payload = payload]

NextImport ==
    \E shop \in Shops, payload \in ImportPayloads :
        /\ imports < MaxImports
        /\ PartnerImport(shop, payload)
        /\ lastImport' = ImportRecord(shop, payload)
        /\ imports' = imports + 1

SpecImport == InitImport /\ [][NextImport]_vars

\* C10: an import that repeats the shop and payload of the successful import just
\* before it succeeds, leaves the whole catalog as that import left it, and reports
\* zero categories, products, product infos and parameters created.
C10_ImportIdempotent ==
    [][(/\ lastImport.ok
        /\ lastImport'.shop = lastImport.shop
        /\ lastImport'.payload = lastImport.payload)
          => /\ lastImport'.ok
             /\ lastImport'.result = ZeroResult
             /\ categories' = categories
             /\ shop_categories' = shop_categories
             /\ products' = products
             /\ product_infos' = product_infos
             /\ parameters' = parameters
             /\ product_parameters' = product_parameters
      ]_vars

\* The successful import of a payload with two goods entries and parameters has
\* just been run a second time.
C10_Witness ==
    /\ lastImport.repeat /\ lastImport.ok
    /\ Len(lastImport.payload.goods) = 2
    /\ \E r \in product_parameters : product_infos[r.product_info].shop = lastImport.shop
    /\ \E i \in DOMAIN product_infos :
          product_infos[i].shop = lastImport.shop /\ product_infos[i].quantity > 0

\* The external ids a payload's goods entries carry.
GoodsIds(payload) == {payload.goods[k].id : k \in DOMAIN payload.goods}

\* C11: after a successful import, whatever the number of goods entries of the
\* payload, every ProductInfo of the shop whose external id no goods entry of the
\* payload carries still exists and has quantity 0.
C11_UnseenZeroed ==
    [][lastImport'.ok /\ imports' # imports
         => \A i \in DOMAIN product_infos :
               (/\ product_infos[i].shop = lastImport'.shop
                /\ product_infos[i].external_id \notin GoodsIds(lastImport'.payload))
                 => /\ i \in DOMAIN product_infos'
                    /\ product_infos'[i].external_id = product_infos[i].external_id
                    /\ product_infos'[i].quantity = 0
      ]_vars

\* C12: an import that fails part-way, after categories and goods entries were
\* already processed, leaves all six catalog tables exactly as they were before the
\* call: nothing created, changed, deleted or zeroed by the call remains.
C12_ImportAllOrNothing ==
    [][imports' # imports /\ ~lastImport'.ok
         => /\ categories' = categories
            /\ shop_categories' = shop_categories
            /\ products' = products
            /\ product_infos' = product_infos
            /\ parameters' = parameters
            /\ product_parameters' = product_parameters
      ]_vars

\* An import has just failed on the non-numeric price of its second goods entry,
\* after its categories, new to the catalog, and its first entry were processed,
\* in a catalog that an earlier import had filled.
C12_Witness ==
    /\ ~lastImport.ok /\ lastImport.error = "ValueError"
    /\ lastImport.payload = Payload(K2, <<E3, E5>>)
    /\ imports >= 2
    /\ Len(product_infos) >= 1
    /\ "tv" \notin {categories[i] : i \in DOMAIN categories}

\* The category ids a payload's named category entries declare.
CategoryIds(payload) ==
    {payload.categories[k].id : k \in {j \in DOMAIN payload.categories :
                                          payload.categories[j].name \notin {Absent, ""}}}

\* The parameter set of a goods entry, as (name, value) pairs.
ParamsOf(item) ==
    {<<iter_parameters(item)[k][1], ToStr(iter_parameters(item)[k][2])>> :
        k \in DOMAIN iter_parameters(item)}

\* C13: when the goods list of a payload carries the same external id twice,
\* whatever the names of the two entries, the import succeeds and the shop then has
\* exactly one ProductInfo with that external id, holding the name, price,
\* quantity and parameter set of the later entry.
C13_LaterDuplicateWins ==
    [][(/\ imports' # imports
        /\ Len(lastImport'.payload.goods) = 2
        /\ lastImport'.payload.goods[1].id = lastImport'.payload.goods[2].id
        /\ \A k \in 1..2 :
              lastImport'.payload.goods[k].category \in CategoryIds(lastImport'.payload))
         => LET later == lastImport'.payload.goods[2]
                rows == {i \in DOMAIN product_infos' :
                            /\ product_infos'[i].shop = lastImport'.shop
                            /\ product_infos'[i].external_id = later.id}
            IN  /\ lastImport'.ok
                /\ Cardinality(rows) = 1
                /\ \A i \in rows :
                      /\ product_infos'[i].name = later.name
                      /\ product_infos'[i].price = to_decimal(later.price)
                      /\ product_infos'[i].quantity = later.quantity
                      /\ {<<parameters'[r.parameter], r.value>> :
                             r \in {x \in product_parameters' : x.product_info = i}}
                           = ParamsOf(later)
      ]_vars

\* The lines of order o that belong to listings of a shop, as a partner listing
\* shows a line.
ShopLines(o, shop) ==
    {[product_info |-> r.product_info, quantity |-> r.quantity,
      price |-> r.price, total_price |-> r.price * r.quantity] :
        r \in {x \in order_items : x.order = o /\ product_infos[x.product_info].shop = shop}}

\* C14: the listing of orders for the owner of a shop returns every order that has
\* a line of that shop, each with exactly the lines whose ProductInfo belongs to
\* the shop and no line of another shop, and with line totals of those lines only.
C14_PartnerSeesOwnLines ==
    lastOp.op = "partner_orders"
        => /\ \A o \in DOMAIN orders :
                 ShopLines(o, lastOp.partner) # {} => \E e \in lastOp.listed : e.id = o
           /\ \A e \in lastOp.listed : e.items = ShopLines(e.id, lastOp.partner)

\* C15: when the delivery of the admin or of the buyer notification fails during
\* a confirm that passed validation, the caller still receives success, the order
\* is persisted with status new, and the buyer notification was attempted even
\* when the admin notification failed.
C15_NotificationFailureSwallowed ==
    (lastOp.op = "confirm" /\ "failed" \in {lastOp.admin_mail, lastOp.buyer_mail})
        => /\ lastOp.outcome = OK
           /\ lastOp.buyer_mail # "none"
           /\ \E u \in Buyers : /\ lastPlaced[u] \in DOMAIN orders
                                /\ orders[lastPlaced[u]].status = Status_NEW

\* C16: under any interleaving of setLine, removeLine and confirm requests of one
\* user, no line of an Order is added, changed or removed once the Order's status
\* is new: the placed order keeps the lines the confirm observed.
C16_PlacedOrderLinesFrozen ==
    [][\A o \in DOMAIN orders :
          orders[o].status = Status_NEW
              => {r \in order_items' : r.order = o} = {r \in order_items : r.order = o}
      ]_vars

(***************************************************************************)
(* Claims about the status of an order.                                    *)
(***************************************************************************)
\* C17: once the status of an Order is completed or cancelled, no operation
\* changes its status.
C17_TerminalNeverExited ==
    [][\A o \in DOMAIN orders :
          orders[o].status \in {"completed", "cancelled"}
              => orders'[o].status = orders[o].status
      ]_vars

\* C18: the only step that takes an Order out of status cart is a successful
\* confirm, and it sets the status to new; the administrator's setStatus on an
\* Order in status cart does not move it out of cart.
C18_ConfirmSoleExitFromCart ==
    [][\A o \in DOMAIN orders :
          (orders[o].status = "cart" /\ orders'[o].status # "cart")
              => /\ lastOp'.op = "confirm" /\ lastOp'.outcome = OK
                 /\ orders'[o].status = "new"
      ]_vars

\* C19: an Order enters status new at most once, by the buyer's confirm of a cart
\* that was never placed before (a placed order keeps the contact its confirm
\* wrote); every other status change is the administrator's.
C19_NewEnteredOnce ==
    [][\A o \in DOMAIN orders :
          orders'[o].status # orders[o].status
              => IF orders'[o].status = "new"
                 THEN /\ lastOp'.op = "confirm"
                      /\ orders[o].status = "cart"
                      /\ orders[o].contact = NoneId
                 ELSE lastOp'.op = "set_status"
      ]_vars

\* The seven enumerated statuses.
SevenStatuses ==
    {"cart", "new", "confirmed", "assembled", "shipped", "completed", "cancelled"}

\* C20: the administrator's setStatus(order, s) with s one of the seven statuses
\* succeeds from any current status, backward moves and moves out of completed
\* or cancelled included, and overwrites the status with s and nothing else; a
\* value outside the enumeration is rejected and an unknown order id is not
\* found, and both leave every order unchanged.
C20_AdminSetStatus ==
    [][\A o \in OrderInputs, s \in AdminStatusInputs :
          (lastOp'.op = "set_status" /\ OrderStatusUpdate(o, s))
              => IF o \notin DOMAIN orders
                 THEN lastOp'.outcome = NotFound /\ orders' = orders
                 ELSE IF s \notin SevenStatuses
                 THEN lastOp'.outcome = ValidationError /\ orders' = orders
                 ELSE /\ lastOp'.outcome = OK
                      /\ orders'[o].status = s
                      /\ DOMAIN orders' = DOMAIN orders
                      /\ \A x \in DOMAIN orders :
                            /\ x # o => orders'[x] = orders[x]
                            /\ orders'[x].user = orders[x].user
                            /\ orders'[x].contact = orders[x].contact
                            /\ orders'[x].comment = orders[x].comment
                      /\ order_items' = order_items
      ]_vars

\* The administrator has just changed a status with success; an order the buyer
\* had placed is back in status cart (a backward move, its contact is still
\* there), and another order is cancelled.
C20_Witness ==
    /\ lastOp.op = "set_status" /\ lastOp.outcome = OK
    /\ \E o \in DOMAIN orders :
          /\ orders[o].status = Status_CART
          /\ orders[o].contact # NoneId
    /\ \E o \in DOMAIN orders : orders[o].status = Status_CANCELLED

C22_OwnPlacedOrdersOnly ==
    [][/\ \A u \in Users :
            (lastOp'.op = "order_list" /\ OrderList(u))
                => /\ \A e \in lastOp'.listed :
                         /\ e.id \in DOMAIN orders
                         /\ orders[e.id].user = u
                         /\ orders[e.id].status # "cart"
                   /\ \A o \in DOMAIN orders :
                         (orders[o].user = u /\ orders[o].status # "cart")
                             => \E e \in lastOp'.listed : e.id = o
       /\ \A u \in Users, o \in OrderInputs :
            (lastOp'.op = "order_retrieve" /\ OrderRetrieve(u, o))
                => (lastOp'.outcome = OK
                      <=> (/\ o \in DOMAIN orders
                           /\ orders[o].user = u
                           /\ orders[o].status # "cart"))
      ]_vars

\* A user has just listed their orders and got their one placed order, while
\* the other user holds a placed order too.
C22_Witness ==
    /\ lastOp.op = "order_list"
    /\ Cardinality(lastOp.listed) = 1
    /\ \E u \in Users, o \in DOMAIN orders :
          /\ \A e \in lastOp.listed : orders[e.id].user = u
          /\ orders[o].user # u /\ orders[o].status = Status_NEW

\* C23: removeLine(cart, pi) without a product reference fails with a validation
\* error; with a reference for which the caller's cart has no line it fails with
\* NotFound; both change no line.  Otherwise it deletes exactly that line and
\* leaves the other lines of the cart, the lines of other orders and the status
\* of the cart as they were.
C23_RemoveLine ==
    [][\A u \in Buyers, pi \in PiInputs :
          (lastOp'.op = "remove_line" /\ lastOp'.outcome # ServerError
             /\ BasketDelete(u, pi))
              => LET c == CartOf(u)
                     line == {r \in order_items : r.order = c /\ r.product_info = pi}
                 IN  /\ orders'[c].status = "cart"
                     /\ \A o \in DOMAIN orders : orders'[o] = orders[o]
                     /\ IF pi = NoneId
                        THEN /\ lastOp'.outcome = ValidationError
                             /\ order_items' = order_items
                        ELSE IF line = {}
                        THEN /\ lastOp'.outcome = NotFound
                             /\ order_items' = order_items
                        ELSE /\ lastOp'.outcome = OK
                             /\ Cardinality(line) = 1
                             /\ order_items' = order_items \ line
      ]_vars

\* A removeLine has just deleted one of the two lines of the cart.
C23_Witness ==
    /\ lastOp.op = "remove_line" /\ lastOp.outcome = OK
    /\ \E o \in DOMAIN orders :
          /\ orders[o].status = Status_CART
          /\ Cardinality(ItemsOf(order_items, o)) = 1

(***************************************************************************)
(* Claims about accounts.                                                  *)
(***************************************************************************)
\* C24: a confirm-email with the user's own unused, unexpired token sets
\* email_verified and marks that token used; a token that is used already,
\* expired, unknown or another user's is rejected and leaves email_verified and
\* every token unchanged; a used token stays used, so every later confirm-email
\* with it is rejected.
C24_TokenConsumedOnce ==
    [][/\ lastOp'.op = "confirm_email"
          => LET e == lastOp'.email
                 good == {k \in email_tokens :
                             /\ k.token = lastOp'.token /\ k.user = e
                             /\ ~k.is_used /\ ~k.expired}
             IN  IF lastOp'.token # NoneId /\ good # {}
                 THEN /\ lastOp'.outcome = OK
                      /\ accounts'[e].email_verified
                      /\ \A u \in Users \ {e} : accounts'[u] = accounts[u]
                      /\ email_tokens' = (email_tokens \ good)
                                            \cup {[k EXCEPT !.is_used = TRUE] : k \in good}
                 ELSE /\ lastOp'.outcome # OK
                      /\ accounts' = accounts
                      /\ email_tokens' = email_tokens
       /\ \A k \in email_tokens :
             k.is_used => \E k2 \in email_tokens' :
                              k2.token = k.token /\ k2.user = k.user /\ k2.is_used
      ]_vars

\* A confirm-email with the token the user has consumed before, still unexpired,
\* has just been rejected.
C24_Witness ==
    /\ lastOp.op = "confirm_email" /\ lastOp.outcome = ValidationError
    /\ \E k \in email_tokens :
          /\ k.token = lastOp.token /\ k.user = lastOp.email
          /\ k.is_used /\ ~k.expired
          /\ accounts[k.user].email_verified

(***************************************************************************)
(* The concurrent import specification: two import requests for one shop   *)
(* run as two transactions.  import_payload takes no lock of its own       *)
(* (no select_for_update, no lock per shop); what the store gives every    *)
(* transaction is statement-level read committed: a statement sees the     *)
(* rows committed when it starts and the transaction's own writes, a       *)
(* written row is locked until the transaction ends, and an insert of a    *)
(* unique key waits for an uncommitted insert of the same key.  The        *)
(* payloads of this specification name categories, products and shop       *)
(* associations that exist, so the transactions write ProductInfo rows     *)
(* only.                                                                   *)
(***************************************************************************)
G1 == GoodsEntry(1, 1, "a", "5", 1, <<>>)
G2 == GoodsEntry(2, 1, "b", "5", 1, <<>>)

ConcPayloads == {Payload(K1, <<G1>>), Payload(K1, <<G2>>)}

\* The shop whose owner sends the concurrent imports.
ConcShop == 1

\* Shop 2 lists both products and shop 1 is associated with their category;
\* shop 1 has no listing yet, or lists both.
ConcBase0 ==
    import_payload(import_payload(EmptyCatalog, 2, Payload(K1, <<G1, G2>>)).cat,
                   ConcShop, Payload(K1, <<>>)).cat
ConcBase1 == import_payload(ConcBase0, ConcShop, Payload(K1, <<G1, G2>>)).cat

InitImportConc ==
    /\ \E cat \in {ConcBase0, ConcBase1} :
          /\ InitCatalog(cat)
          /\ lastImport = [shop |-> ConcShop, payload |-> NoPayload, ok |-> FALSE,
                           error |-> "", result |-> ZeroResult, repeat |-> FALSE,
                           start |-> cat]
    /\ contacts = {[id |-> u, user |-> u] : u \in Users}
    /\ orders = <<>>
    /\ order_items = {}
    /\ lastOp = NoOp
    /\ lastPlaced = [u \in Users |-> 0]
    /\ req = [p \in Procs |-> Idle]
    /\ imports = 0
    /\ InitVerified

\* A transaction that has written and not yet ended.
InFlight(q) == req[q].pc \in {"zero", "commit"}

\* The committed ProductInfo rows transaction q holds locked.
LockedBy(q) ==
    IF ~InFlight(q) THEN {}
    ELSE req[q].touched \cup (IF req[q].pc = "commit" THEN req[q].zeroed ELSE {})

\* The external ids of the rows q has inserted and not committed.
PendingIds(q) ==
    IF ~InFlight(q) THEN {}
    ELSE {req[q].own[i].external_id : i \in (Len(req[q].snap) + 1)..Len(req[q].own)}

\* PartnerImportView.post reaches importer.import_payload(payload): BEGIN.
ImportBegin(p, payload) ==
    /\ req[p].pc = "idle"
    /\ req' = [req EXCEPT ![p] =
                 [pc |-> "upsert", user |-> 0, cart |-> 0, payload |-> payload,
                  snap |-> <<>>, own |-> <<>>, processed |-> {},
                  touched |-> {}, zeroed |-> {}]]
    /\ UNCHANGED <<accountVars, catalogVars, orderVars, lastOp, lastImport, lastPlaced,
                   imports>>

\* What the categories loop and the goods loop of transaction p do on the
\* committed catalog.
Upserts(p) ==
    ImportGoods(ConcShop,
                ImportCategories(ConcShop,
                                 [cat |-> Catalog, category_map |-> <<>>,
                                  result |-> ZeroResult, processed_external_ids |-> {},
                                  error |-> ""],
                                 req[p].payload.categories),
                req[p].payload.goods)

\* The committed rows the goods loop of p updates, and the ids it inserts.
UpsertTouched(p) ==
    {i \in DOMAIN product_infos :
        /\ product_infos[i].shop = ConcShop
        /\ product_infos[i].external_id \in Upserts(p).processed_external_ids}

UpsertInserted(p) ==
    {Upserts(p).cat.product_infos[i].external_id :
        i \in (Len(product_infos) + 1)..Len(Upserts(p).cat.product_infos)}

\* The categories and goods loops (importer.py 50-103) of transaction p.  They
\* wait while another transaction holds a row they update or has inserted a key
\* they insert.
ImportUpsert(p) ==
    LET acc == Upserts(p)
    IN  /\ req[p].pc = "upsert"
        /\ \A q \in Procs \ {p} :
              /\ UpsertTouched(p) \cap LockedBy(q) = {}
              /\ UpsertInserted(p) \cap PendingIds(q) = {}
        /\ req' = [req EXCEPT ![p] =
                     IF acc.error # ""
                     THEN [@ EXCEPT !.pc = "failed"]
                     ELSE [@ EXCEPT !.pc = "zero",
                                    !.snap = product_infos,
                                    !.own = acc.cat.product_infos,
                                    !.processed = acc.processed_external_ids,
                                    !.touched = UpsertTouched(p)]]
        /\ UNCHANGED <<accountVars, catalogVars, orderVars, lastOp, lastImport, lastPlaced,
                       imports>>

\* The rows the zeroing UPDATE of p selects: the committed listings of the shop
\* whose external id p has not processed.  Rows another transaction inserted and
\* has not committed are not visible to it.
ZeroTargets(p) ==
    IF req[p].processed = {} THEN {}
    ELSE {i \in DOMAIN product_infos :
             /\ product_infos[i].shop = ConcShop
             /\ product_infos[i].external_id \notin req[p].processed}

\* The zeroing UPDATE (importer.py 105-108); it waits for the locks on its rows.
ImportZero(p) ==
    /\ req[p].pc = "zero"
    /\ \A q \in Procs \ {p} : ZeroTargets(p) \cap LockedBy(q) = {}
    /\ req' = [req EXCEPT ![p] = [@ EXCEPT !.pc = "commit", !.zeroed = ZeroTargets(p)]]
    /\ UNCHANGED <<accountVars, catalogVars, orderVars, lastOp, lastImport, lastPlaced,
                   imports>>

\* import_payload returns and @transaction.atomic commits the writes of p.
ImportCommit(p) ==
    LET r == req[p]
        rows == [i \in DOMAIN product_infos |->
                    IF i \in r.touched THEN r.own[i]
                    ELSE IF i \in r.zeroed THEN [product_infos[i] EXCEPT !.quantity = 0]
                    ELSE product_infos[i]]
    IN  /\ r.pc = "commit"
        /\ product_infos' = rows \o SubSeq(r.own, Len(r.snap) + 1, Len(r.own))
        /\ req' = [req EXCEPT ![p] = [@ EXCEPT !.pc = "committed"]]
        /\ UNCHANGED <<accountVars, categories, shop_categories, products, parameters,
                       product_parameters, orderVars, lastOp, lastImport, lastPlaced,
                       imports>>

\* Two zeroing UPDATEs wait for each other's rows: the store ends one of the
\* transactions with a deadlock error and its writes are rolled back.
ImportDeadlock(p) ==
    /\ req[p].pc = "zero"
    /\ \E q \in Procs \ {p} :
          /\ req[q].pc = "zero"
          /\ ZeroTargets(p) \cap LockedBy(q) # {}
          /\ ZeroTargets(q) \cap LockedBy(p) # {}
    /\ req' = [req EXCEPT ![p] = [@ EXCEPT !.pc = "failed"]]
    /\ UNCHANGED <<accountVars, catalogVars, orderVars, lastOp, lastImport, lastPlaced,
                   imports>>

NextImportConc ==
    \/ \E p \in Procs, payload \in ConcPayloads : ImportBegin(p, payload)
    \/ \E p \in Procs : ImportUpsert(p)
    \/ \E p \in Procs : ImportZero(p)
    \/ \E p \in Procs : ImportCommit(p)
    \/ \E p \in Procs : ImportDeadlock(p)

SpecImportConc == InitImportConc /\ [][NextImportConc]_vars

\* The listings of a shop in a catalog, without their primary keys.
ShopListings(infos, shop) ==
    {[external_id |-> infos[i].external_id, name |-> infos[i].name,
      price |-> infos[i].price, quantity |-> infos[i].quantity] :
        i \in {j \in DOMAIN infos : infos[j].shop = shop}}

\* The listings of the shop after payload a, then payload b, imported one after
\* the other into the catalog the behaviour started from.
SerialListings(a, b) ==
    ShopListings(import_payload(import_payload(lastImport.start, ConcShop, a).cat,
                                ConcShop, b).cat.product_infos, ConcShop)

\* C25: when two concurrent imports for one shop have both committed and no other
\* import ran, the listings of the shop are those that the two imports, run one
\* after the other in one of the two orders, would have left.
C25_SameShopImportsSerialized ==
    \A p \in Procs : \A q \in Procs \ {p} :
        (/\ req[p].pc = "committed" /\ req[q].pc = "committed"
         /\ \A x \in Procs \ {p, q} : req[x].pc = "idle")
            => ShopListings(product_infos, ConcShop)
                  \in {SerialListings(req[p].payload, req[q].payload),
                       SerialListings(req[q].payload, req[p].payload)}

(***************************************************************************)
(* views.py: PartnerImportView.post, from the request to the importer.     *)
(* The payload comes from a remote URL, an uploaded file, the "data" key   *)
(* of the body, or is the body itself.  A fetched or uploaded text is      *)
(* either broken (yaml.safe_load raises yaml.YAMLError) or denotes a       *)
(* value.                                                                  *)
(***************************************************************************)
\* A value is a mapping (a dict, with the payload's keys) or something else.
MappingRoot(payload) == [is_dict |-> TRUE, payload |-> payload]
\* A root that is a list, not a mapping.
ListRoot == [is_dict |-> FALSE, payload |-> NoPayload]

BrokenText == [broken |-> TRUE, value |-> ListRoot]
TextOf(value) == [broken |-> FALSE, value |-> value]

\* isinstance(payload, dict)
IsMapping(value) == value.is_dict

\* yaml.safe_load: the value the text denotes, or the YAMLError it raises.
yaml_safe_load(text) ==
    IF text.broken THEN [raised |-> TRUE, value |-> ListRoot]
    ELSE [raised |-> FALSE, value |-> text.value]

PostValues == {MappingRoot(Payload(K1, <<E1>>)), MappingRoot(Payload(K2, <<E7>>)), ListRoot}
PostTexts == {BrokenText} \cup {TextOf(v) : v \in PostValues}

\* The requests: source is the first of "url", "file", "data" the request
\* carries ("body" when it carries none); fetched tells whether requests.get and
\* raise_for_status passed.
ImportRequests ==
    {[source |-> "url", fetched |-> f, text |-> t, data |-> ListRoot] :
        f \in BOOLEAN, t \in PostTexts}
    \cup {[source |-> "file", fetched |-> TRUE, text |-> t, data |-> ListRoot] :
            t \in PostTexts}
    \cup {[source |-> "data", fetched |-> TRUE, text |-> BrokenText, data |-> v] :
            v \in PostValues}
    \cup {[source |-> "body", fetched |-> TRUE, text |-> BrokenText, data |-> v] :
            v \in PostValues \ {ListRoot}}

NoRequest == [source |-> "body", fetched |-> TRUE, text |-> BrokenText, data |-> ListRoot]

\* views.py 197-212: what the handler has in hand before it looks the shop up:
\* a response it returns at once, an exception nothing catches, or the payload.
PartnerImportView_payload(request) ==
    LET loaded == yaml_safe_load(request.text)
        payload == IF request.source \in {"url", "file"} THEN loaded.value
                   ELSE request.data
    IN  IF request.source = "url" /\ ~request.fetched
        THEN [outcome |-> ValidationError, payload |-> NoPayload]
        ELSE IF request.source \in {"url", "file"} /\ loaded.raised
        THEN [outcome |-> ServerError, payload |-> NoPayload]
        ELSE IF ~IsMapping(payload)
        THEN [outcome |-> ValidationError, payload |-> NoPayload]
        ELSE [outcome |-> OK, payload |-> payload.payload]

\* PartnerImportView.post
PartnerImportPost(shop, request) ==
    LET got == PartnerImportView_payload(request)
    IN  IF got.outcome # OK
        THEN /\ lastOp' = [NoOp EXCEPT !.op = "import", !.outcome = got.outcome]
             /\ lastImport' = [shop |-> shop, payload |-> NoPayload, ok |-> FALSE,
                               error |-> "", result |-> ZeroResult, repeat |-> FALSE,
                               ran |-> FALSE, request |-> request]
             /\ UNCHANGED <<accountVars, catalogVars, orderVars, lastPlaced, req>>
        ELSE /\ PartnerImport(shop, got.payload)
             /\ lastImport' = [ImportRecord(shop, got.payload) @@
                               [ran |-> TRUE, request |-> request]
                                  EXCEPT !.repeat = FALSE]

InitImportPost ==
    /\ InitCatalog(EmptyCatalog)
    /\ contacts = {[id |-> u, user |-> u] : u \in Users}
    /\ orders = <<>>
    /\ order_items = {}
    /\ lastOp = NoOp
    /\ lastImport = [shop |-> 0, payload |-> NoPayload, ok |-> FALSE, error |-> "",
                     result |-> ZeroResult, repeat |-> FALSE,
                     ran |-> FALSE, request |-> NoRequest]
    /\ lastPlaced = [u \in Users |-> 0]
    /\ req = [p \in Procs |-> Idle]
    /\ imports = 0
    /\ InitVerified

NextImportPost ==
    \E shop \in Shops, request \in ImportRequests :
        /\ imports < MaxImports
        /\ PartnerImportPost(shop, request)
        /\ imports' = imports + 1

SpecImportPost == InitImportPost /\ [][NextImportPost]_vars

\* The requests the claim is about: the fetch failed, the text does not parse,
\* or the root is not a mapping.
FetchFailed(request) == request.source = "url" /\ ~request.fetched
Unparsable(request) ==
    /\ request.source \in {"url", "file"}
    /\ ~FetchFailed(request)
    /\ request.text.broken
RootNotMapping(request) ==
    IF request.source \in {"url", "file"}
    THEN ~FetchFailed(request) /\ ~request.text.broken /\ ~IsMapping(request.text.value)
    ELSE ~IsMapping(request.data)

\* C26: an import request whose fetch fails, whose payload does not parse or whose
\* parsed root is not a mapping is answered with a validation error, the importer
\* does not run and the catalog is unchanged.
C26_BadImportRequestRejected ==
    [][(/\ lastOp'.op = "import"
        /\ \E shop \in Shops, request \in ImportRequests :
              /\ FetchFailed(request) \/ Unparsable(request) \/ RootNotMapping(request)
              /\ PartnerImportPost(shop, request))
          => /\ lastOp'.outcome = ValidationError
             /\ ~lastImport'.ran
             /\ UNCHANGED catalogVars]_vars

(***************************************************************************)
(* The goods loop and its category references                              *)
(***************************************************************************)
\* The categories loop, then the goods loop, of import_payload on a catalog:
\* the catalog written, the ImportResult counters and the ids recorded as seen.
GoodsRun(cat, shop, cats, goods) ==
    ImportGoods(shop,
                ImportCategories(shop,
                                 [cat |-> cat, category_map |-> <<>>,
                                  result |-> ZeroResult, processed_external_ids |-> {},
                                  error |-> ""],
                                 cats),
                goods)

\* The goods entry has no category reference, or refers to no named category
\* entry of the payload.
Unmatched(item, cats) ==
    \/ item.category = NoneId
    \/ ~\E i \in DOMAIN cats : cats[i].name # "" /\ cats[i].id = item.category

\* The goods of a payload without the unmatched entries.
Matched(payload) ==
    LET keep(item) == ~Unmatched(item, payload.categories)
    IN  SelectSeq(payload.goods, keep)

\* C27: a goods entry with a missing or unmatched category reference is skipped
\* entirely: the import writes, counts and records as seen exactly what it would
\* without that entry.
C27_UnmatchedGoodsSkipped ==
    [][\A shop \in Shops, payload \in ImportPayloads :
          (/\ lastImport' = ImportRecord(shop, payload)
           /\ PartnerImport(shop, payload))
             => GoodsRun(Catalog, shop, payload.categories, payload.goods)
                   = GoodsRun(Catalog, shop, payload.categories, Matched(payload))]_vars

(***************************************************************************)
(* The categories loop                                                     *)
(***************************************************************************)
\* The names of the named category entries of a payload, and the ids they carry.
NamedCategories(cats) == {cats[i].name : i \in {j \in DOMAIN cats : cats[j].name # ""}}
NamedIds(cats) == {cats[i].id : i \in {j \in DOMAIN cats : cats[j].name # ""}}

\* The goods of a payload without the entries that refer to a category entry
\* without a name only.
GoodsOfNamed(payload) ==
    LET keep(item) == item.category \in NamedIds(payload.categories)
                      \/ ~\E i \in DOMAIN payload.categories :
                            payload.categories[i].id = item.category
    IN  SelectSeq(payload.goods, keep)

\* C28: in a successful import a category entry without a name creates no
\* Category, is not counted and is not entered in the map, so the goods that refer
\* to it are skipped; every named entry is got or created by name, counted only
\* when created, and associated with the shop; repeating the import adds no
\* category and no association.
C28_CategoryEntries ==
    [][(lastOp'.op = "import" /\ lastImport'.ok)
          => LET shop == lastImport'.shop
                 cats == lastImport'.payload.categories
                 old == {categories[i] : i \in DOMAIN categories}
                 new == {categories'[i] : i \in DOMAIN categories'}
                 acc == GoodsRun(Catalog, shop, cats, <<>>)
             IN  /\ new = old \cup NamedCategories(cats)
                 /\ Len(categories') = Cardinality(new)
                 /\ SubSeq(categories', 1, Len(categories)) = categories
                 /\ lastImport'.result.categories_created
                       = Cardinality(NamedCategories(cats) \ old)
                 /\ DOMAIN acc.category_map = NamedIds(cats)
                 /\ GoodsRun(Catalog, shop, cats, lastImport'.payload.goods)
                       = GoodsRun(Catalog, shop, cats, GoodsOfNamed(lastImport'.payload))
                 /\ shop_categories'
                       = shop_categories
                         \cup {<<shop, i>> : i \in {j \in DOMAIN categories' :
                                                     categories'[j] \in NamedCategories(cats)}}
                 /\ lastImport'.repeat
                       => /\ categories' = categories
                          /\ shop_categories' = shop_categories
                          /\ lastImport'.result.categories_created = 0]_vars

\* A payload with a category entry without a name, a goods entry that refers to
\* it and a named category has been imported twice in a row.
C28_Witness ==
    /\ lastOp.op = "import"
    /\ lastImport.ok /\ lastImport.repeat
    /\ \E i \in DOMAIN lastImport.payload.categories :
          /\ lastImport.payload.categories[i].name = ""
          /\ \E g \in DOMAIN lastImport.payload.goods :
                lastImport.payload.goods[g].category = lastImport.payload.categories[i].id
    /\ NamedCategories(lastImport.payload.categories) # {}
    /\ \E c \in DOMAIN categories : <<lastImport.shop, c>> \in shop_categories

(***************************************************************************)
(* The parameters of a listing                                             *)
(***************************************************************************)
\* The goods entries of a payload the goods loop processes, and among them the
\* last one of each external id.
ProcessedEntries(payload) ==
    {k \in DOMAIN payload.goods :
        payload.goods[k].category \in NamedIds(payload.categories)}
LastEntries(payload) ==
    {k \in ProcessedEntries(payload) :
        \A j \in ProcessedEntries(payload) :
            payload.goods[j].id = payload.goods[k].id => j <= k}

\* The (name, value) pairs of the ProductParameter rows of listing i.
ListingParams(i) ==
    {<<parameters[r.parameter], r.value>> :
        r \in {x \in product_parameters : x.product_info = i}}

\* C29: after a successful import every processed listing of the shop has exactly
\* the parameters of its payload entry, and none when the entry's parameters are
\* not a mapping.
C29_ParametersReplaced ==
    (lastOp.op = "import" /\ lastImport.ok)
        => \A k \in LastEntries(lastImport.payload) :
              LET item == lastImport.payload.goods[k]
                  rows == {i \in DOMAIN product_infos :
                              /\ product_infos[i].shop = lastImport.shop
                              /\ product_infos[i].external_id = item.id}
              IN  /\ rows # {}
                  /\ \A i \in rows :
                        /\ ListingParams(i) = ParamsOf(item)
                        /\ Cardinality({x \in product_parameters : x.product_info = i})
                              = Cardinality(ParamsOf(item))
                        /\ item.parameters = NotMapping => ListingParams(i) = {}

\* The only listing there is was imported with the parameter color, then again
\* with the parameter size only, and has the parameter size only.
C29_Witness ==
    /\ lastOp.op = "import" /\ lastImport.ok
    /\ lastImport.payload = Payload(K1, <<E8>>)
    /\ Len(product_infos) = 1
    /\ product_infos[1].shop = lastImport.shop
    /\ \E p \in DOMAIN parameters : parameters[p] = "color"
    /\ ListingParams(1) = {<<"size", "2">>}

(***************************************************************************)
(* The prices of a placed order                                            *)
(***************************************************************************)
\* C30: when a confirm places an order and answers 201, every line of the order
\* has the price its listing has at that moment.
C30_PriceAtConfirm ==
    [][\A o \in DOMAIN orders :
          (/\ lastOp'.op = "confirm" /\ lastOp'.outcome = OK
           /\ orders[o].status = Status_CART
           /\ orders'[o].status = Status_NEW)
             => \A r \in ItemsOf(order_items', o) :
                   r.price = product_infos'[r.product_info].price]_vars

(***************************************************************************)
(* The stock of a placed order                                             *)
(***************************************************************************)
\* C31: when a confirm places an order and answers 201, every line of the order
\* asks for no more than its listing has in stock at that moment.
C31_StockAtConfirm ==
    [][\A o \in DOMAIN orders :
          (/\ lastOp'.op = "confirm" /\ lastOp'.outcome = OK
           /\ orders[o].status = Status_CART
           /\ orders'[o].status = Status_NEW)
             => \A r \in ItemsOf(order_items', o) :
                   r.quantity <= product_infos'[r.product_info].quantity]_vars

(***************************************************************************)
(* The notifications of a confirm                                          *)
(***************************************************************************)
\* The step placed an order: a cart became a new order.
Placed ==
    \E o \in DOMAIN orders :
        orders[o].status = Status_CART /\ orders'[o].status = Status_NEW

\* C32: a confirm fires a notification only when it has saved the order with
\* status new; a confirm that placed the order fires both, the admin's first and
\* then the buyer's; a rejected confirm fires none.
C32_NotificationsAfterCommit ==
    [][lastOp'.op = "confirm"
          => /\ (lastOp'.admin_mail # "none" \/ lastOp'.buyer_mail # "none") => Placed
             /\ Placed => (lastOp'.admin_mail # "none" /\ lastOp'.buyer_mail # "none")
             /\ lastOp'.buyer_mail # "none" => lastOp'.admin_mail # "none"
             /\ lastOp'.outcome = ValidationError
                   => (lastOp'.admin_mail = "none" /\ lastOp'.buyer_mail = "none")]_vars

(***************************************************************************)
(* What a status update leaves alone                                       *)
(***************************************************************************)
\* C33: an administrator's status update changes nothing but the status of the
\* order it names: every order keeps its user, contact and comment, the lines
\* keep their prices and quantities, the contacts and every listing (its stock
\* included) are as before, also when the new status is cancelled.
C33_SetStatusFrame ==
    [][lastOp'.op = "set_status"
          => /\ order_items' = order_items
             /\ product_infos' = product_infos
             /\ contacts' = contacts
             /\ DOMAIN orders' = DOMAIN orders
             /\ \A x \in DOMAIN orders :
                   [orders'[x] EXCEPT !.status = orders[x].status] = orders[x]
             /\ Cardinality({x \in DOMAIN orders :
                               orders'[x].status # orders[x].status}) <= 1]_vars

\* The administrator has just cancelled an order with lines: the lines are there
\* and the stock of the listings is what the catalog started with.
C33_Witness ==
    /\ lastOp.op = "set_status" /\ lastOp.outcome = OK
    /\ Cardinality({o \in DOMAIN orders : orders[o].status # Status_CART}) = 1
    /\ \E o \in DOMAIN orders :
          /\ orders[o].status = Status_CANCELLED
          /\ orders[o].contact # NoneId
          /\ \E r \in ItemsOf(order_items, o) :
                /\ r.quantity >= 1
                /\ product_infos[r.product_info].quantity
                      = SeedCatalog(NumShops).product_infos[r.product_info].quantity

(***************************************************************************)
(* The contact of a placed order                                           *)
(***************************************************************************)
\* C34: every order that is not a cart has a contact, and the contact is one of
\* the order's own user.
C34_PlacedOrderOwnContact ==
    \A o \in DOMAIN orders :
        orders[o].status # Status_CART
            => /\ orders[o].contact # NoneId
               /\ \E c \in contacts : c.id = orders[o].contact /\ c.user = orders[o].user

(***************************************************************************)
(* Concurrent setLine requests.  BasketItemUpdateSerializer.save is        *)
(* OrderItem.objects.update_or_create(order=, product_info=, defaults=):   *)
(* a lookup, then an INSERT when nothing was found, which the unique       *)
(* index of unique_together (order, product_info) refuses when another     *)
(* request inserted the line meanwhile; the refused request then reads     *)
(* the line again and updates it.  The buyer's cart exists and the first   *)
(* listing has MaxStock pieces.                                            *)
(***************************************************************************)
SetLineBase ==
    import_payload(SeedCatalog(NumShops), 1,
                   Payload(K1, <<GoodsEntry(1, 1, "a", "10", MaxStock, <<>>)>>)).cat

InitSetLine ==
    /\ InitCatalog(SetLineBase)
    /\ contacts = {[id |-> u, user |-> u] : u \in Users}
    /\ orders = [o \in Buyers |-> NewCart(o)]
    /\ order_items = {}
    /\ lastOp = NoOp
    /\ lastImport = [shop |-> 0, payload |-> NoPayload, ok |-> FALSE, error |-> "",
                     result |-> ZeroResult, repeat |-> FALSE]
    /\ lastPlaced = [u \in Users |-> 0]
    /\ req = [p \in Procs |-> Idle]
    /\ imports = 0
    /\ InitVerified

\* The lines of the cart of request p for its listing.
LinesOf(p) ==
    {r \in order_items : r.order = req[p].cart /\ r.product_info = req[p].pi}

\* BasketView.post up to serializer.save(): the cart is read and the input is
\* validated.
SetLineStart(p, u, pi, q) ==
    LET g == get_user_cart(orders, u)
        valid == BasketItemUpdateSerializer_validate(product_infos, pi, q)
    IN  /\ req[p].pc = "idle"
        /\ g.outcome # "MultipleObjectsReturned"
        /\ g.orders = orders
        /\ req' = [req EXCEPT ![p] =
                     [pc |-> IF valid THEN "get" ELSE "done", user |-> u,
                      cart |-> g.cart, pi |-> pi, q |-> q, valid |-> valid,
                      refused |-> FALSE]]
        /\ UNCHANGED <<accountVars, catalogVars, orderVars, lastOp, lastImport,
                       lastPlaced, imports>>

\* update_or_create: the lookup by (order, product_info).
SetLineGet(p) ==
    /\ req[p].pc = "get"
    /\ req' = [req EXCEPT ![p] =
                 [@ EXCEPT !.pc = IF LinesOf(p) = {} THEN "insert" ELSE "update"]]
    /\ UNCHANGED <<accountVars, catalogVars, orderVars, lastOp, lastImport,
                   lastPlaced, imports>>

\* An INSERT into a table without the unique index.
SetLineInsert_nounique(p) ==
    LET row == [order |-> req[p].cart, product_info |-> req[p].pi,
                quantity |-> req[p].q, price |-> product_infos[req[p].pi].price]
    IN  /\ req[p].pc = "insert"
        /\ order_items' = order_items \cup {row}
        /\ req' = [req EXCEPT ![p] = [@ EXCEPT !.pc = "done"]]
        /\ UNCHANGED <<accountVars, catalogVars, contacts, orders, lastOp, lastImport,
                       lastPlaced, imports>>

\* update_or_create: the INSERT.  When the line exists by now the unique index
\* raises IntegrityError, which update_or_create answers by reading the line.
SetLineInsert(p) ==
    LET row == [order |-> req[p].cart, product_info |-> req[p].pi,
                quantity |-> req[p].q, price |-> product_infos[req[p].pi].price]
    IN  /\ req[p].pc = "insert"
        /\ IF LinesOf(p) # {}
           THEN /\ req' = [req EXCEPT ![p] = [@ EXCEPT !.pc = "update", !.refused = TRUE]]
                /\ UNCHANGED order_items
           ELSE /\ order_items' = order_items \cup {row}
                /\ req' = [req EXCEPT ![p] = [@ EXCEPT !.pc = "done"]]
        /\ UNCHANGED <<accountVars, catalogVars, contacts, orders, lastOp, lastImport,
                       lastPlaced, imports>>

\* update_or_create: the defaults are written to the line found.
SetLineUpdate(p) ==
    /\ req[p].pc = "update"
    /\ order_items' = BasketItemUpdateSerializer_save(
                          order_items, product_infos, req[p].cart, req[p].pi, req[p].q)
    /\ req' = [req EXCEPT ![p] = [@ EXCEPT !.pc = "done"]]
    /\ UNCHANGED <<accountVars, catalogVars, contacts, orders, lastOp, lastImport,
                   lastPlaced, imports>>

\* The response is sent.
SetLineReturn(p) ==
    /\ req[p].pc = "done"
    /\ req' = [req EXCEPT ![p] = Idle]
    /\ UNCHANGED <<accountVars, catalogVars, orderVars, lastOp, lastImport,
                   lastPlaced, imports>>

NextSetLine ==
    \/ \E p \in Procs, u \in Buyers, pi \in DOMAIN product_infos, q \in QuantityInputs :
          SetLineStart(p, u, pi, q)
    \/ \E p \in Procs : SetLineGet(p)
    \/ \E p \in Procs : SetLineInsert(p)
    \/ \E p \in Procs : SetLineUpdate(p)
    \/ \E p \in Procs : SetLineReturn(p)

SpecSetLine == InitSetLine /\ [][NextSetLine]_vars

\* C35: every line has quantity at least 1 and no order has two lines of one
\* listing; lines change only when a setLine call writes, and a call that has
\* written leaves exactly one line of its cart and listing, holding its
\* quantity, so after concurrent calls for one cart and listing the one line
\* holds the quantity of the call that wrote last.
C35_UniqueLines ==
    [][/\ \A r \in order_items' : r.quantity >= 1
       /\ \A r1 \in order_items' : \A r2 \in order_items' :
             (r1.order = r2.order /\ r1.product_info = r2.product_info) => r1 = r2
       /\ \A p \in Procs :
             (req[p].pc \in {"insert", "update"} /\ req'[p].pc = "done")
                => {r \in order_items' : r.order = req[p].cart
                                         /\ r.product_info = req[p].pi}
                     = {[order |-> req[p].cart, product_info |-> req[p].pi,
                         quantity |-> req[p].q,
                         price |-> product_infos[req[p].pi].price]}
       /\ order_items' # order_items
             => \E p \in Procs : /\ req[p].pc \in {"insert", "update"}
                                 /\ req'[p].pc = "done"]_vars

\* Two setLine calls for the same cart and listing, with different quantities,
\* have finished; the unique index refused the INSERT of one of them, which then
\* updated the line the other had inserted: the line holds its quantity.
C35_Witness ==
    \E p \in Procs : \E p2 \in Procs \ {p} :
        /\ req[p].pc = "done" /\ req[p2].pc = "done"
        /\ req[p].valid /\ req[p2].valid
        /\ req[p].cart = req[p2].cart /\ req[p].pi = req[p2].pi
        /\ req[p].q # req[p2].q
        /\ req[p2].refused
        /\ LinesOf(p) = {[order |-> req[p].cart, product_info |-> req[p].pi,
                          quantity |-> req[p2].q,
                          price |-> product_infos[req[p].pi].price]}

(***************************************************************************)
(* The lines of a placed order                                             *)
(***************************************************************************)
\* C36: every order that is not a cart has at least one line.
C36_PlacedOrderHasLines ==
    \A o \in DOMAIN orders :
        orders[o].status # Status_CART => ItemsOf(order_items, o) # {}

(***************************************************************************)
(* The listings of the other shops                                         *)
(***************************************************************************)
\* C37: an import for a shop leaves the listings of every other shop as they
\* were (the row with its price, price_rrc and quantity, and its parameters) and
\* creates no listing for another shop.
C37_OtherShopsUntouched ==
    [][imports' # imports
          => /\ \A i \in DOMAIN product_infos :
                   product_infos[i].shop # lastImport'.shop
                      => /\ i \in DOMAIN product_infos'
                         /\ product_infos'[i] = product_infos[i]
                         /\ {<<parameters'[r.parameter], r.value>> :
                                r \in {x \in product_parameters' : x.product_info = i}}
                              = ListingParams(i)
             /\ \A i \in DOMAIN product_infos' :
                   i \notin DOMAIN product_infos
                      => product_infos'[i].shop = lastImport'.shop]_vars

\* A shop has just imported with success a payload that carries an external id
\* another shop uses too, at another price, and that does not carry an id of a
\* listing the other shop has in stock.
C37_Witness ==
    /\ lastOp.op = "import" /\ lastImport.ok
    /\ \E i \in DOMAIN product_infos :
          /\ product_infos[i].shop # lastImport.shop
          /\ \E k \in LastEntries(lastImport.payload) :
                /\ lastImport.payload.goods[k].id = product_infos[i].external_id
                /\ to_decimal(lastImport.payload.goods[k].price) # product_infos[i].price
    /\ \E j \in DOMAIN product_infos :
          /\ product_infos[j].shop # lastImport.shop
          /\ product_infos[j].external_id \notin GoodsIds(lastImport.payload)
          /\ product_infos[j].quantity > 0
          /\ ListingParams(j) = {}
    /\ \E j \in DOMAIN product_infos :
          /\ product_infos[j].shop # lastImport.shop
          /\ ListingParams(j) # {}

(***************************************************************************)
(* The catalog under the basket and confirm operations                     *)
(***************************************************************************)
\* C38: setLine, removeLine and confirm leave every listing as it was; a listing
\* changes only in an import.
C38_BasketLeavesCatalog ==
    [][/\ lastOp'.op \in {"set_line", "remove_line", "confirm"}
            => /\ product_infos' = product_infos
               /\ product_parameters' = product_parameters
       /\ product_infos' # product_infos => lastOp'.op = "import"]_vars

\* A confirm has just placed an order whose line asks for the whole stock of its
\* listing, and the stock is still there.
C38_Witness ==
    /\ lastOp.op = "confirm" /\ lastOp.outcome = OK
    /\ \E u \in Buyers :
          /\ lastPlaced[u] \in DOMAIN orders
          /\ orders[lastPlaced[u]].status = Status_NEW
          /\ \E r \in ItemsOf(order_items, lastPlaced[u]) :
                /\ r.quantity = MaxStock
                /\ product_infos[r.product_info].quantity = MaxStock

(***************************************************************************)
(* permissions.py and the permission_classes of BasketView and             *)
(* OrderConfirmView.  The framework checks the classes before it calls     *)
(* the handler; a request that fails one is answered without the handler   *)
(* having run.  A user who is not registered has no credentials.           *)
(***************************************************************************)
PermissionDenied == "permission_denied"
NotAuthenticated == "not_authenticated"

\* permissions.IsAuthenticated
IsAuthenticated(u) == accounts[u].registered

\* IsBuyer.has_permission
IsBuyer(u) == IsAuthenticated(u) /\ accounts[u].role = Role_BUYER

\* A verification gate that lets every authenticated user in.
IsEmailVerified_any(u) == IsAuthenticated(u)

\* IsEmailVerified.has_permission
IsEmailVerified(u) == IsAuthenticated(u) /\ accounts[u].email_verified

\* permission_classes = [permissions.IsAuthenticated, IsBuyer, IsEmailVerified]
BasketView_permission_classes(u) ==
    IsAuthenticated(u) /\ IsBuyer(u) /\ IsEmailVerified(u)
OrderConfirmView_permission_classes(u) ==
    IsAuthenticated(u) /\ IsBuyer(u) /\ IsEmailVerified(u)

\* The answer to a request that failed a permission class.
Denied(u, op) ==
    /\ lastOp' = [NoOp EXCEPT !.op = op, !.email = u,
                              !.outcome = IF IsAuthenticated(u) THEN PermissionDenied
                                          ELSE NotAuthenticated]
    /\ UNCHANGED <<accountVars, catalogVars, orderVars, lastImport, lastPlaced, req,
                   imports>>

\* BasketView.post, BasketView.delete and OrderConfirmView.post behind their
\* permission classes.
BasketViewPost(u, pi, q) ==
    IF BasketView_permission_classes(u) THEN BasketSetLine(u, pi, q)
    ELSE Denied(u, "set_line")

BasketViewDelete(u, pi) ==
    IF BasketView_permission_classes(u) THEN BasketDelete(u, pi)
    ELSE Denied(u, "remove_line")

OrderConfirmViewPost(u, cid, comment) ==
    IF OrderConfirmView_permission_classes(u) THEN OrderConfirm(u, cid, comment)
    ELSE Denied(u, "confirm")

NextPermission ==
    \/ \E u \in Users, role \in {Role_BUYER, Role_SHOP} : Register(u, role)
    \/ \E u \in Users : EmailConfirm(u, u)
    \/ \E u \in Users : BasketViewPost(u, 1, 1)
    \/ \E u \in Users : BasketViewDelete(u, 1)
    \/ \E u \in Users : OrderConfirmViewPost(u, u, "")

SpecPermission == InitAccount /\ [][NextPermission]_vars

\* The user is registered, and is not a buyer or has no verified email.
NotVerifiedBuyer(u) ==
    /\ accounts[u].registered
    /\ accounts[u].role # Role_BUYER \/ ~accounts[u].email_verified

\* C39: a setLine, removeLine or confirm of a user who is not a buyer or whose
\* email is not verified is answered with a permission error and changes no
\* order and no line; every order and every line belongs to a verified buyer.
C39_OnlyVerifiedBuyers ==
    [][/\ \A u \in Users :
             (/\ NotVerifiedBuyer(u)
              /\ lastOp'.op \in {"set_line", "remove_line", "confirm"}
              /\ \/ BasketViewPost(u, 1, 1)
                 \/ BasketViewDelete(u, 1)
                 \/ OrderConfirmViewPost(u, u, ""))
                => /\ lastOp'.outcome = PermissionDenied
                   /\ orders' = orders
                   /\ order_items' = order_items
       /\ \A o \in DOMAIN orders' :
             /\ accounts'[orders'[o].user].registered
             /\ accounts'[orders'[o].user].role = Role_BUYER
             /\ accounts'[orders'[o].user].email_verified
       /\ \A r \in order_items' : r.order \in DOMAIN orders']_vars

\* A supplier with a verified email has just been refused a confirm, while a
\* buyer has a placed order.
C39_Witness ==
    /\ lastOp.op = "confirm" /\ lastOp.outcome = PermissionDenied
    /\ lastOp.email \in Users
    /\ accounts[lastOp.email].role = Role_SHOP
    /\ accounts[lastOp.email].email_verified
    /\ \E o \in DOMAIN orders : orders[o].status = Status_NEW

=============================================================================
